---- MODULE Spec2Model ----
(***************************************************************************)
(* CurlX: a model of the hardened Session / SessionPool implementation     *)
(* (src/src/Session.cpp lines 1-730, src/include/CurlX/Session.hpp).       *)
(*                                                                         *)
(* Four groups of state are modelled, each with its own specification:     *)
(*   - the SessionPool and the callers that acquire and release Sessions   *)
(*     (SpecPool, FairSpecPool);                                           *)
(*   - one Session shared by threads that call send and the setters        *)
(*     (SpecSend: two threads; SpecSeq: one thread, richer Requests;       *)
(*     SpecCalls: two threads that only call send);                        *)
(*   - Session objects and the transport handles they own across           *)
(*     construction, moves and destruction (SpecMove);                     *)
(*   - the values send works with: the reply of the engine and the         *)
(*     RESPONSE built from it (SpecReply: one thread, Requests with        *)
(*     Params, Timeout and Verify), a HEADERS object (SpecHeaders,         *)
(*     src/unnamed/part_004 lines 1-368) and a COOKIES object              *)
(*     (SpecCookies, src/src/Cookies.cpp).                                 *)
(***************************************************************************)
EXTENDS Integers, Sequences, FiniteSets, TLC

VARIABLES
    \* ---- SessionPool (Session.hpp:173-178) and its callers
    pool_arg,             \* the max_size argument the SessionPool was constructed with
    max_size_,            \* SessionPool::max_size_
    available_sessions_,  \* SessionPool::available_sessions_ (vector, back = last)
    in_use_sessions_,     \* SessionPool::in_use_sessions_
    created,              \* number of Sessions made by make_shared in acquire_session
    caller_pc,            \* per caller: "idle" or "waiting" (blocked in pool_cv_.wait)
    ptrs                  \* per caller: the shared_ptr<Session> values it still keeps

poolVars == <<pool_arg, max_size_, available_sessions_, in_use_sessions_, created, caller_pc, ptrs>>

VARIABLES
    \* ---- one Session (Session.hpp:116-141) and the threads that use it
    curl_handle_,         \* TRUE: the Session owns a transport handle; FALSE: null (moved from)
    is_valid_,            \* Session::is_valid_
    session_mutex_,       \* the thread that holds Session::session_mutex_, or NoThread
    opts,                 \* the option set of the transport handle (curl_easy_setopt)
    last_write,           \* who wrote a handle option last, and whether it held session_mutex_
    settings,             \* connection_timeout_, transfer_timeout_, max_connections_per_host_,
                          \* keep_alive_enabled_, compression_enabled_
    cookie_jar_path_,     \* Session::cookie_jar_path_
    default_headers_,     \* Session::default_headers_
    default_cookies_,     \* Session::default_cookies_
    request_count_,       \* Session::request_count_
    total_response_time_, \* Session::total_response_time_
    pc,                   \* per thread: where it is inside send ("idle" outside)
    req,                  \* per thread: the REQUEST of its current or last send
    locals,               \* per thread: mime, chunk, output_file of its current or last send
    result,               \* per thread: how its last send ended
    sends_started,        \* number of send calls made so far
    config_calls,         \* number of configuration calls (setters, reset) made so far
    elapsed_sum,          \* sum of the elapsed times of the send calls that have ended
    delivered,            \* per thread: what the engine delivered in its last transfer
    response,             \* per thread: the RESPONSE its caller holds (NoResponse: none)
    status_check,         \* per thread: what ok, is_success and raise_for_status gave
    average_call          \* the monitoring thread: where it is inside
                          \* get_average_response_time, and what its last call gave

sessionVars == <<curl_handle_, is_valid_, session_mutex_, opts, last_write, settings,
                 cookie_jar_path_, default_headers_, default_cookies_, request_count_,
                 total_response_time_, pc, req, locals, result, sends_started, config_calls,
                 elapsed_sum, delivered, response, status_check, average_call>>

replyVars == <<delivered, response, status_check>>

VARIABLES
    \* ---- Session objects and the transport handles they own
    objects,              \* per storage slot: the Session object living there, if any
    handles_made,         \* number of handles curl_easy_init has returned
    released,             \* per handle: how many times curl_easy_cleanup ran on it
    jar_at_release,       \* per handle: CURLOPT_COOKIEJAR as set just before its release
    last_op               \* the last operation on the objects and what it found

moveVars == <<objects, handles_made, released, jar_at_release, last_op>>

\* HEADERS and COOKIES objects of a caller
VARIABLES
    headers_,             \* HEADERS::headers_: the stored lines, in order
    header_call,          \* the last call made on the HEADERS object and its result
    cookies_,             \* COOKIES::cookies_: the map from names to values
    cookie_call           \* the last call made on the COOKIES object and its result
collectionVars == <<headers_, header_call, cookies_, cookie_call>>

vars == <<poolVars, sessionVars, moveVars, collectionVars>>

----------------------------------------------------------------------------
(* Bounds of the model                                                     *)

\* largest max_size argument given to the SessionPool constructor
MaxPoolArg == 2

\* largest number of send calls made on the Session
MaxSends == 2

\* largest number of get_average_response_time calls the monitoring thread makes
MaxReads == 2

\* largest number of configuration calls (setters, reset) made on the Session
MaxConfigCalls == 2

\* the threads that use the pool
Callers == {"c1", "c2", "c3"}

\* a null shared_ptr, and a Session that was not made by the pool
NullSession == 0
ForeignSession == -1

----------------------------------------------------------------------------
(* SessionPool                                                             *)

\* SessionPool::SessionPool: max_size 0 is replaced by 1
NormalizeMaxSize(m) == IF m = 0 THEN 1 ELSE m

\* in_use_sessions_.size() < max_size_, as tested in the wait predicate
\* and again before a Session is created
BelowCap_OffByOne == Len(in_use_sessions_) <= max_size_
BelowCap == Len(in_use_sessions_) < max_size_

\* the predicate of pool_cv_.wait in acquire_session
WaitPredicate == available_sessions_ # <<>> \/ BelowCap

\* index of the first occurrence of s in the vector v (std::find), 0 if none
FindFirst(v, s) ==
    IF \E i \in 1..Len(v) : v[i] = s
    THEN CHOOSE i \in 1..Len(v) : v[i] = s /\ \A j \in 1..(i - 1) : v[j] # s
    ELSE 0

\* vector::erase of the element at index i
EraseAt(v, i) == SubSeq(v, 1, i - 1) \o SubSeq(v, i + 1, Len(v))

\* the body of acquire_session once the wait predicate holds: caller c gets
\* the Session at the back of the idle list, or a newly made one
TakeSession_KeepsIdle(c) ==
    IF available_sessions_ # <<>>
    THEN LET session == available_sessions_[Len(available_sessions_)] IN
         /\ in_use_sessions_' = Append(in_use_sessions_, session)
         /\ ptrs' = [ptrs EXCEPT ![c] = @ \cup {session}]
         /\ UNCHANGED <<created, available_sessions_>>
    ELSE IF BelowCap
    THEN LET session == created + 1 IN
         /\ created' = session
         /\ in_use_sessions_' = Append(in_use_sessions_, session)
         /\ ptrs' = [ptrs EXCEPT ![c] = @ \cup {session}]
         /\ UNCHANGED available_sessions_
    ELSE UNCHANGED <<available_sessions_, in_use_sessions_, created, ptrs>>
TakeSession(c) ==
    IF available_sessions_ # <<>>
    THEN LET session == available_sessions_[Len(available_sessions_)] IN
         /\ available_sessions_' = SubSeq(available_sessions_, 1, Len(available_sessions_) - 1)
         /\ in_use_sessions_' = Append(in_use_sessions_, session)
         /\ ptrs' = [ptrs EXCEPT ![c] = @ \cup {session}]
         /\ UNCHANGED created
    ELSE IF BelowCap
    THEN LET session == created + 1 IN
         /\ created' = session
         /\ in_use_sessions_' = Append(in_use_sessions_, session)
         /\ ptrs' = [ptrs EXCEPT ![c] = @ \cup {session}]
         /\ UNCHANGED available_sessions_
    ELSE \* return nullptr
         UNCHANGED <<available_sessions_, in_use_sessions_, created, ptrs>>

\* acquire_session, from the call to the first evaluation of the wait
\* predicate under pool_mutex_: return a Session, or block on pool_cv_
AcquireEnter(c) ==
    /\ caller_pc[c] = "idle"
    /\ IF WaitPredicate
       THEN TakeSession(c) /\ UNCHANGED caller_pc
       ELSE /\ caller_pc' = [caller_pc EXCEPT ![c] = "waiting"]
            /\ UNCHANGED <<available_sessions_, in_use_sessions_, created, ptrs>>
    /\ UNCHANGED <<pool_arg, max_size_, sessionVars, moveVars, collectionVars>>

\* a caller blocked in pool_cv_.wait wakes, re-takes pool_mutex_ and
\* evaluates the predicate again. No code notifies pool_cv_, so the only
\* wake-up there is is the spurious one the condition variable permits.
AcquireWake(c) ==
    /\ caller_pc[c] = "waiting"
    /\ WaitPredicate
    /\ TakeSession(c)
    /\ caller_pc' = [caller_pc EXCEPT ![c] = "idle"]
    /\ UNCHANGED <<pool_arg, max_size_, sessionVars, moveVars, collectionVars>>

\* SessionPool::size()
PoolSize == Len(available_sessions_) + Len(in_use_sessions_)

----------------------------------------------------------------------------
(* Values of the Session model                                             *)

Threads == {"t1", "t2"}
NoThread == "none"

\* AuthType (Auth.hpp:8-12) and AUTH values
NoAuth == [type |-> "None", username |-> "", password |-> ""]
BasicAuth == [type |-> "Basic", username |-> "user", password |-> "pw"]
DigestAuth == [type |-> "Digest", username |-> "user", password |-> "pw"]

\* REQUEST() with a URL: the defaults of every facet (Request.hpp, Redirects.hpp:8)
DefaultRequest ==
    [url_ |-> "http://h", method_ |-> "GET", headers_ |-> <<>>, body_ |-> "",
     auth_ |-> NoAuth, allow_redirects_ |-> [value |-> TRUE, max_redirects |-> 30],
     params_ |-> <<>>, files_ |-> <<>>, output_file_path_ |-> "",
     timeout_ |-> 0, verify_ |-> TRUE, cookies_ |-> <<>>]

\* an output path in a writable directory, and one in a directory that
\* access(dir, W_OK) refuses
WritablePath == "out/body.bin"
UnwritablePath == "ro/body.bin"

\* Requests that change one facet of the default Request
OneFacetRequests ==
    {[DefaultRequest EXCEPT !.url_ = ""]}
    \cup {[DefaultRequest EXCEPT !.method_ = m] : m \in {"HEAD", "POST"}}
    \cup {[DefaultRequest EXCEPT !.headers_ = <<"Accept: text/plain">>]}
    \cup {[DefaultRequest EXCEPT !.body_ = "data"]}
    \cup {[DefaultRequest EXCEPT !.auth_ = a] : a \in {BasicAuth, DigestAuth}}
    \cup {[DefaultRequest EXCEPT !.allow_redirects_ = r] :
             r \in {[value |-> FALSE, max_redirects |-> 0], [value |-> TRUE, max_redirects |-> 5]}}
    \cup {[DefaultRequest EXCEPT !.params_ = <<[name |-> <<"q">>, value |-> <<"a", " ", "/">>]>>]}
    \cup {[DefaultRequest EXCEPT !.files_ = <<[name |-> "file", path |-> "up.txt"]>>]}
    \cup {[DefaultRequest EXCEPT !.output_file_path_ = p] : p \in {WritablePath, UnwritablePath}}

\* Requests that set several facets at once
UploadRequest ==
    [DefaultRequest EXCEPT !.method_ = "POST", !.files_ = <<[name |-> "file", path |-> "up.txt"]>>,
                           !.body_ = "data", !.headers_ = <<"Accept: text/plain">>,
                           !.output_file_path_ = WritablePath]

\* CURLcode values curl_easy_perform returns
EngineCodes ==
    {"CURLE_OK", "CURLE_COULDNT_RESOLVE_HOST", "CURLE_COULDNT_CONNECT",
     "CURLE_OPERATION_TIMEDOUT", "CURLE_TOO_MANY_REDIRECTS", "CURLE_WRITE_ERROR"}

\* the handle's options after curl_easy_init / curl_easy_reset (libcurl's defaults)
CurlDefaults ==
    [URL |-> <<>>, CUSTOMREQUEST |-> "unset", MIMEPOST |-> <<>>, POSTFIELDS |-> "unset",
     WRITEDATA |-> "default", NOBODY |-> 0, HTTPHEADER |-> <<>>, USERPWD |-> <<>>,
     HTTPAUTH |-> "unset", FOLLOWLOCATION |-> 0, MAXREDIRS |-> -1,
     CONNECTTIMEOUT |-> 300, TIMEOUT |-> 0, TCP_KEEPALIVE |-> 0, MAXCONNECTS |-> 5,
     ACCEPT_ENCODING |-> "unset", COOKIEFILE |-> "unset", COOKIEJAR |-> "unset",
     SSL_VERIFYPEER |-> 1, SSL_VERIFYHOST |-> 2, PROTOCOLS |-> "all",
     MAXFILESIZE |-> 0, COOKIELIST |-> <<>>]

\* the member initialisers of Session (Session.hpp:137-141)
DefaultSettings ==
    [connection_timeout_ |-> 30, transfer_timeout_ |-> 60, max_connections_per_host_ |-> 10,
     keep_alive_enabled_ |-> TRUE, compression_enabled_ |-> TRUE]

----------------------------------------------------------------------------
(* Session: helpers                                                        *)

\* the printable ASCII characters, in the order of their codes 32..126
\* ("GRAVE" stands for the grave accent, code 96)
Printable ==
    <<" ", "!", "\"", "#", "$", "%", "&", "'", "(", ")", "*", "+", ",", "-", ".", "/",
      "0", "1", "2", "3", "4", "5", "6", "7", "8", "9", ":", ";", "<", "=", ">", "?",
      "@", "A", "B", "C", "D", "E", "F", "G", "H", "I", "J", "K", "L", "M", "N", "O",
      "P", "Q", "R", "S", "T", "U", "V", "W", "X", "Y", "Z", "[", "\\", "]", "^", "_",
      "GRAVE", "a", "b", "c", "d", "e", "f", "g", "h", "i", "j", "k", "l", "m", "n", "o",
      "p", "q", "r", "s", "t", "u", "v", "w", "x", "y", "z", "{", "|", "}", "~">>

\* the byte of each printable character
PrintableCode ==
    [c \in {Printable[i] : i \in 1..Len(Printable)} |->
        31 + (CHOOSE i \in 1..Len(Printable) : Printable[i] = c)]

\* the byte of a character (a string is the sequence of its characters)
CharCode(c) ==
    IF c \in DOMAIN PrintableCode THEN PrintableCode[c]
    ELSE CASE c = "\t" -> 9 [] c = "\n" -> 10 [] c = "\r" -> 13 [] OTHER -> 63

\* std::isalnum(c) || c == '-' || c == '_' || c == '.' || c == '~'
IsUnreserved(c) ==
    LET n == CharCode(c) IN
    \/ (n >= 48 /\ n <= 57) \/ (n >= 65 /\ n <= 90) \/ (n >= 97 /\ n <= 122)
    \/ c \in {"-", "_", ".", "~"}

\* safe_url_encode, on a string given as its sequence of characters;
\* HexDigits are the digits std::hex writes (no std::uppercase is set on the
\* stream)
RECURSIVE safe_url_encode(_)
safe_url_encode(value) ==
    IF value = <<>> THEN <<>>
    ELSE LET c == Head(value)
             HexDigits == <<"0", "1", "2", "3", "4", "5", "6", "7",
                            "8", "9", "a", "b", "c", "d", "e", "f">>
         IN
         (IF IsUnreserved(c) THEN <<c>>
          ELSE <<"%", HexDigits[(CharCode(c) \div 16) + 1], HexDigits[(CharCode(c) % 16) + 1]>>)
         \o safe_url_encode(Tail(value))

\* the query string appended to the URL: name=value pairs joined by '&'
RECURSIVE QueryString(_)
QueryString(params) ==
    IF params = <<>> THEN <<>>
    ELSE safe_url_encode(params[1].name) \o <<"=">> \o safe_url_encode(params[1].value)
         \o (IF Len(params) > 1 THEN <<"&">> ELSE <<>>) \o QueryString(Tail(params))

\* send: full_url, the URL handed to the engine
FullUrl(request) ==
    IF request.params_ = <<>> THEN <<request.url_>>
    ELSE <<request.url_, "?">> \o QueryString(request.params_)

----------------------------------------------------------------------------
(* HEADERS (Headers.cpp): a collection is the sequence headers_ of its     *)
(* lines, a line the sequence of its characters                            *)

MAX_HEADER_SIZE == 8192
MAX_HEADERS_COUNT == 1000
MAX_HEADER_NAME_SIZE == 256
MAX_HEADER_VALUE_SIZE == 4096

\* ::tolower on one character
ToLower(c) ==
    IF CharCode(c) >= 65 /\ CharCode(c) <= 90 THEN Printable[CharCode(c) + 32 - 31] ELSE c

\* std::transform(.., ::tolower)
LowerCase(str) == [i \in 1..Len(str) |-> ToLower(str[i])]

\* str.rfind(prefix, 0) == 0
StartsWith(str, prefix) ==
    Len(str) >= Len(prefix) /\ SubSeq(str, 1, Len(prefix)) = prefix

\* str.find(c, from): the first position (counted from 1) at or after from
\* that holds c, or 0 for npos
FindChar(str, c, from) ==
    IF \E i \in from..Len(str) : str[i] = c
    THEN CHOOSE i \in from..Len(str) : str[i] = c /\ \A j \in from..(i - 1) : str[j] # c
    ELSE 0

is_valid_header_name(name) ==
    /\ name # <<>>
    /\ Len(name) <= MAX_HEADER_NAME_SIZE
    /\ \A i \in 1..Len(name) :
          ~(CharCode(name[i]) < 32 \/ CharCode(name[i]) > 126 \/ name[i] = ":")

is_valid_header_value(value) ==
    /\ Len(value) <= MAX_HEADER_VALUE_SIZE
    /\ \A i \in 1..Len(value) : ~(CharCode(value[i]) < 32 /\ value[i] # "\t")

\* safe_concat(a, b) with the separator ": "
safe_concat(a, b) == a \o <<":", " ">> \o b

\* the result of a call on a collection: the collection after it and the
\* exception it threw ("none" when it returned)
Returned(h) == [headers_ |-> h, thrown |-> "none"]
Threw(h, exception) == [headers_ |-> h, thrown |-> exception]

\* HEADERS::add(key, value)
HEADERS_add_NoCap(h, key, value) ==
    IF ~is_valid_header_name(key) THEN Threw(h, "invalid_argument")
    ELSE IF ~is_valid_header_value(value) THEN Threw(h, "invalid_argument")
    ELSE Returned(Append(h, safe_concat(key, value)))
HEADERS_add(h, key, value) ==
    IF ~is_valid_header_name(key) THEN Threw(h, "invalid_argument")
    ELSE IF ~is_valid_header_value(value) THEN Threw(h, "invalid_argument")
    ELSE IF Len(h) >= MAX_HEADERS_COUNT THEN Threw(h, "length_error")
    ELSE IF Len(key) + Len(value) + 2 > MAX_HEADER_SIZE THEN Threw(h, "runtime_error")
    ELSE Returned(Append(h, safe_concat(key, value)))

\* HEADERS::add(header_line)
HEADERS_add_line(h, header_line) ==
    LET colon_pos == FindChar(header_line, ":", 1) IN
    IF header_line = <<>> \/ Len(header_line) > MAX_HEADER_SIZE
    THEN Threw(h, "invalid_argument")
    ELSE IF Len(h) >= MAX_HEADERS_COUNT THEN Threw(h, "length_error")
    ELSE IF colon_pos = 0 \/ colon_pos = 1 \/ colon_pos = Len(header_line)
    THEN Threw(h, "invalid_argument")
    ELSE IF ~is_valid_header_name(SubSeq(header_line, 1, colon_pos - 1))
    THEN Threw(h, "invalid_argument")
    ELSE IF ~is_valid_header_value(SubSeq(header_line, colon_pos + 1, Len(header_line)))
    THEN Threw(h, "invalid_argument")
    ELSE Returned(Append(h, header_line))

\* the test remove, get and has make of a stored line against header_name:
\* the lower-cased line starts with the lower-cased name, that is, the line
\* is at least as long and agrees with the name, character by character
\* and ignoring case, over the length of the name
LineMatches(header, header_name) ==
    /\ Len(header) >= Len(header_name)
    /\ \A i \in 1..Len(header_name) : ToLower(header[i]) = ToLower(header_name[i])

\* HEADERS::remove(header_name): the collection after the call
HEADERS_remove(h, header_name) ==
    IF header_name = <<>> \/ ~is_valid_header_name(header_name) THEN h
    ELSE SelectSeq(h, LAMBDA header : ~LineMatches(header, header_name))

\* std::nullopt, and an optional that holds a string
Nullopt == [has_value |-> FALSE, value |-> <<>>]
Some(str) == [has_value |-> TRUE, value |-> str]

\* the value get takes from a matching line: the text from two characters
\* after the first colon, when the line is longer than that
LineValue(header) ==
    LET colon_pos == FindChar(header, ":", 1) IN
    IF colon_pos # 0 /\ colon_pos + 1 < Len(header)
    THEN Some(SubSeq(header, colon_pos + 2, Len(header)))
    ELSE Nullopt

\* HEADERS::get(header_name)
HEADERS_get(h, header_name) ==
    IF header_name = <<>> \/ ~is_valid_header_name(header_name) THEN Nullopt
    ELSE LET hits == SelectSeq(h, LAMBDA header :
                         LineMatches(header, header_name) /\ LineValue(header).has_value)
         IN IF hits = <<>> THEN Nullopt ELSE LineValue(hits[1])

\* HEADERS::has(header_name)
HEADERS_has(h, header_name) ==
    IF header_name = <<>> \/ ~is_valid_header_name(header_name) THEN FALSE
    ELSE \E i \in 1..Len(h) : LineMatches(h[i], header_name)

\* the loop of add_bulk: add(key, value) for each pair until one throws
RECURSIVE AddEach(_, _)
AddEach(h, header_pairs) ==
    IF header_pairs = <<>> THEN Returned(h)
    ELSE LET one == HEADERS_add(h, header_pairs[1].key, header_pairs[1].value) IN
         IF one.thrown # "none" THEN Threw(one.headers_, "runtime_error")
         ELSE AddEach(one.headers_, Tail(header_pairs))

\* HEADERS::add_bulk(header_pairs)
HEADERS_add_bulk(h, header_pairs) ==
    IF Len(h) + Len(header_pairs) > MAX_HEADERS_COUNT THEN Threw(h, "length_error")
    ELSE AddEach(h, header_pairs)

\* HEADERS::is_valid(): every stored line passes the checks
HEADERS_is_valid(h) ==
    \A i \in 1..Len(h) :
        LET header == h[i]
            colon_pos == FindChar(header, ":", 1)
        IN /\ ~(header = <<>> \/ Len(header) > MAX_HEADER_SIZE)
           /\ ~(colon_pos = 0 \/ colon_pos = 1 \/ colon_pos = Len(header))
           /\ is_valid_header_name(SubSeq(header, 1, colon_pos - 1))
           /\ is_valid_header_value(SubSeq(header, colon_pos + 1, Len(header)))

\* HEADERS::clear()
HEADERS_clear(h) == <<>>

\* HEADERS::size()
HEADERS_size(h) == Len(h)

----------------------------------------------------------------------------
(* Session: validation and settings                                        *)

\* the directory part of an output path (up to the last '/')
OutputDirWritable(path) == path # UnwritablePath

\* validate_request: the reason it throws RequestException, or "ok"
UrlIsEmpty_Never(request) == FALSE
UrlIsEmpty(request) == request.url_ = ""

validate_request(request) ==
    IF ~is_valid_ THEN "Session is not valid"
    ELSE IF UrlIsEmpty(request) THEN "Invalid URL in request"
    ELSE IF request.output_file_path_ # "" /\ ~OutputDirWritable(request.output_file_path_)
         THEN "Output directory is not writable"
    ELSE "ok"

\* apply_safety_settings, on an option set
apply_safety_settings(o) ==
    IF ~curl_handle_ THEN o
    ELSE [o EXCEPT !.MAXFILESIZE = 100 * 1024 * 1024, !.MAXREDIRS = 10,
                   !.SSL_VERIFYPEER = 1, !.SSL_VERIFYHOST = 2, !.PROTOCOLS = "http,https"]

\* apply_performance_settings, on an option set
apply_performance_settings(o) ==
    IF ~curl_handle_ THEN o
    ELSE [o EXCEPT !.CONNECTTIMEOUT = settings.connection_timeout_,
                   !.TIMEOUT = settings.transfer_timeout_,
                   !.TCP_KEEPALIVE = IF settings.keep_alive_enabled_ THEN 1 ELSE 0,
                   !.MAXCONNECTS = settings.max_connections_per_host_,
                   !.ACCEPT_ENCODING =
                       IF settings.compression_enabled_ THEN "gzip,deflate" ELSE @]

\* curl_easy_reset followed by the two apply_ calls (send and reset)
ResetAndReapply_NoReset(o) == apply_performance_settings(apply_safety_settings(o))
ResetAndReapply(o) == apply_performance_settings(apply_safety_settings(CurlDefaults))

\* update_statistics(response_time): the new request_count_ and total_response_time_
update_statistics_NoCount(count, total, response_time) ==
    [count |-> count, total |-> total + response_time]
update_statistics(count, total, response_time) ==
    [count |-> count + 1, total |-> total + response_time]

\* the exception send throws for a failed curl_easy_perform (the switch on res)
ErrorKind_AllGeneric(res) == "RequestException"
ErrorKind(res) ==
    CASE res \in {"CURLE_COULDNT_CONNECT", "CURLE_COULDNT_RESOLVE_HOST"} -> "ConnectionError"
      [] res = "CURLE_OPERATION_TIMEDOUT" -> "Timeout"
      [] res = "CURLE_TOO_MANY_REDIRECTS" -> "TooManyRedirects"
      [] OTHER -> "RequestException"

\* what get_average_response_time returns for the count and the total it
\* loaded, as the fraction total / count
get_average_response_time(count, total) ==
    IF count > 0 THEN [num |-> total, den |-> count] ELSE [num |-> 0, den |-> 1]

\* a call of get_average_response_time by the monitoring thread: pc is
\* "loaded" between its two loads, count the request_count_ it loaded,
\* counted_time the elapsed times of the calls that count includes, value
\* what the call returned, calls the number of calls made
NoAverageCall ==
    [pc |-> "idle", count |-> 0, counted_time |-> 0, returned |-> FALSE,
     value |-> [num |-> 0, den |-> 1], calls |-> 0]

NoLocals == [mime |-> FALSE, chunk |-> FALSE, output_file |-> FALSE]
\* how a send ended: the kind of exception or "Response", the engine's code,
\* whether the call reset the handle and ran a transfer, whether the
\* handle it reset still carried an option of an earlier send (stale), and,
\* inside update_statistics, its argument response_time
NoResult ==
    [kind |-> "none", res |-> "none", reset |-> FALSE, performed |-> FALSE, stale |-> FALSE,
     response_time |-> 0]

----------------------------------------------------------------------------
(* COOKIES (Cookies.cpp): a collection is the map cookies_, a function     *)
(* from the names it holds to their values                                 *)

NoCookies == [k \in {} |-> <<>>]

\* COOKIES::add(key, value): cookies_[key] = value
COOKIES_add_KeepFirst(cookies, key, value) ==
    [k \in (DOMAIN cookies) \cup {key} |-> IF k \in DOMAIN cookies THEN cookies[k] ELSE value]
COOKIES_add(cookies, key, value) ==
    [k \in (DOMAIN cookies) \cup {key} |-> IF k = key THEN value ELSE cookies[k]]

\* COOKIES::remove(cookie_name): cookies_.erase(cookie_name)
COOKIES_remove(cookies, cookie_name) ==
    [k \in (DOMAIN cookies) \ {cookie_name} |-> cookies[k]]

\* COOKIES::get(cookie_name)
COOKIES_get(cookies, cookie_name) ==
    IF cookie_name \in DOMAIN cookies THEN Some(cookies[cookie_name]) ELSE Nullopt

----------------------------------------------------------------------------
(* The engine's reply and the RESPONSE send builds from it                 *)

\* what a thread has of the engine before its first transfer
NoDelivery ==
    [engine_res |-> "none", response_code |-> 0, header_lines |-> <<>>, took |-> 0,
     body_length |-> 0, response_headers |-> <<>>, response_body |-> 0]

\* the body of a reply: chunks pieces of chunk bytes each, as the engine
\* hands them to the write callback, and whether the reply announces its
\* length before the body (Content-Length) or not (chunked, or until close)
NoBody == [chunk |-> 0, chunks |-> 0, length_known |-> TRUE]

\* a reply with status 200, no header section and no body, delivered in one
\* second
BareReply == [response_code |-> 200, header_lines |-> <<>>, took |-> 1, body |-> NoBody]

\* CURLOPT_MAXFILESIZE_LARGE as the engine applies it: a reply that
\* announces a length above the limit is refused before its body is read.
\* When the length is not announced the outcome depends on the libcurl the
\* program is built with (before 8.4.0 the body is transferred whatever its
\* size, since 8.4.0 the transfer stops at the limit): either result is
\* left open.
EngineHonoursMaxFileSize(res, body) ==
    (opts.MAXFILESIZE > 0 /\ body.length_known
        /\ body.chunk * body.chunks > opts.MAXFILESIZE)
    => res = "CURLE_FILESIZE_EXCEEDED"

\* safe_write_callback(contents, size, nmemb, s): the length of *s after
\* the call and the value returned
safe_write_callback(length, size, nmemb) ==
    IF size * nmemb > 100 * 1024 * 1024
    THEN [length |-> length, returned |-> 0]
    ELSE [length |-> length + size * nmemb, returned |-> size * nmemb]

\* the engine hands the chunks of the body to the write callback one by one
\* and stops at the first one for which it does not return the chunk's
\* size. All chunks of a body have one size and the callback's answer does
\* not depend on the length accumulated so far, so the first call decides
\* for all of them.
WriteBody(body) ==
    IF body.chunks = 0 THEN [length |-> 0, ok |-> TRUE]
    ELSE LET first == safe_write_callback(0, 1, body.chunk) IN
         IF first.returned # body.chunk THEN [length |-> first.length, ok |-> FALSE]
         ELSE [length |-> safe_write_callback(body.chunk * (body.chunks - 1), 1,
                                              body.chunk).length,
               ok |-> TRUE]

\* CURLOPT_TIMEOUT as the engine applies it: a transfer that takes longer
\* than a positive limit ends with CURLE_OPERATION_TIMEDOUT
EngineHonoursTimeout(res, took) ==
    (opts.TIMEOUT > 0 /\ took > opts.TIMEOUT) => res = "CURLE_OPERATION_TIMEDOUT"

\* CURLOPT_FOLLOWLOCATION as the engine applies it: with following enabled
\* a 3xx reply that names a Location is followed, so a transfer never ends
\* successfully on it
EngineFollowsRedirects(res, delivery) ==
    (/\ opts.FOLLOWLOCATION = 1
     /\ delivery.response_code >= 300 /\ delivery.response_code < 400
     /\ \E i \in 1..Len(delivery.header_lines) :
            StartsWith(LowerCase(delivery.header_lines[i]),
                       <<"l", "o", "c", "a", "t", "i", "o", "n", ":">>))
    => res # "CURLE_OK"

\* safe_header_callback on one line of the reply (buffer ends with CR LF):
\* the collection after it and whether it returned the full size (ok)
safe_header_callback(h, buffer) ==
    IF Len(buffer) > 2 /\ Len(buffer) < 8192
    THEN LET added == HEADERS_add_line(h, SubSeq(buffer, 1, Len(buffer) - 2)) IN
         [headers_ |-> added.headers_, ok |-> added.thrown = "none"]
    ELSE [headers_ |-> h, ok |-> TRUE]

\* the engine hands the lines to the callback one by one and stops at the
\* first line for which the callback returns 0
RECURSIVE CaptureHeaders(_, _)
CaptureHeaders(h, lines) ==
    IF lines = <<>> THEN [headers_ |-> h, ok |-> TRUE]
    ELSE LET one == safe_header_callback(h, lines[1]) IN
         IF ~one.ok THEN one ELSE CaptureHeaders(one.headers_, Tail(lines))

\* "Set-Cookie:" as send looks for it
SetCookiePrefix == <<"S", "e", "t", "-", "C", "o", "o", "k", "i", "e", ":">>

\* the cookie send takes from one captured header line, added to cookies
ParseSetCookie_KeepsAttributes(cookies, header_line) ==
    IF ~StartsWith(header_line, SetCookiePrefix) THEN cookies
    ELSE LET cookie_str == SubSeq(header_line, 13, Len(header_line))
             eq_pos == FindChar(cookie_str, "=", 1)
         IN IF eq_pos = 0 THEN cookies
            ELSE COOKIES_add(cookies, SubSeq(cookie_str, 1, eq_pos - 1),
                             SubSeq(cookie_str, eq_pos + 1, Len(cookie_str)))
ParseSetCookie(cookies, header_line) ==
    IF ~StartsWith(header_line, SetCookiePrefix) THEN cookies
    ELSE LET cookie_str == SubSeq(header_line, 13, Len(header_line))
             eq_pos == FindChar(cookie_str, "=", 1)
             semicolon_pos == IF eq_pos = 0 THEN 0 ELSE FindChar(cookie_str, ";", eq_pos)
         IN IF eq_pos = 0 THEN cookies
            ELSE COOKIES_add(cookies, SubSeq(cookie_str, 1, eq_pos - 1),
                             SubSeq(cookie_str, eq_pos + 1,
                                    IF semicolon_pos # 0 THEN semicolon_pos - 1
                                    ELSE Len(cookie_str)))

\* the loop over response_headers.all() that fills received_cookies
RECURSIVE ParseReceivedCookies(_, _)
ParseReceivedCookies(cookies, header_lines) ==
    IF header_lines = <<>> THEN cookies
    ELSE ParseReceivedCookies(ParseSetCookie(cookies, header_lines[1]), Tail(header_lines))

\* RESPONSE(): the zero-initialised members
NoResponse ==
    [present |-> FALSE, statusCode |-> 0, body |-> 0, headers |-> <<>>,
     request_url |-> <<>>, request_headers |-> <<>>, received_cookies |-> NoCookies]

\* no status call has been made on the thread's RESPONSE
NoStatusCheck == [called |-> FALSE, ok |-> FALSE, is_success |-> FALSE, raised |-> "none"]

\* effective_headers: the default headers, then the Request's
EffectiveHeaders_RequestFirst(request) == request.headers_ \o default_headers_
EffectiveHeaders(request) == default_headers_ \o request.headers_

\* the RESPONSE send fills after a transfer that ended with CURLE_OK
BuildResponse(request, delivery) ==
    [present |-> TRUE,
     statusCode |-> delivery.response_code,
     body |-> delivery.response_body,
     headers |-> delivery.response_headers,
     request_url |-> <<request.url_>>,
     request_headers |-> EffectiveHeaders(request),
     received_cookies |-> ParseReceivedCookies(NoCookies, delivery.response_headers)]

\* how send ends after CURLE_OK, whatever the status code: it returns the RESPONSE
SendOutcome_RaisesOnError(response_code) ==
    IF response_code >= 400 THEN "HTTPError" ELSE "Response"
SendOutcome(response_code) == "Response"

----------------------------------------------------------------------------
(* Session::send, step by step                                             *)

\* a handle option write by thread t: who wrote, and whether t held the lock
WriteBy(t) == [by |-> t, locked |-> session_mutex_ = t]

\* the catch block of send: the lock_guard (if taken) is released by the
\* unwinding, and nothing else is; update_statistics starts with its first
\* fetch_add (request_count_), its second is SendStatistics; then the
\* exception goes on to the caller
Throw(t, thrown, dt) ==
    /\ request_count_' = update_statistics(request_count_, total_response_time_, dt).count
    /\ UNCHANGED <<total_response_time_, elapsed_sum>>
    /\ result' = [result EXCEPT ![t] = [thrown EXCEPT !.response_time = dt]]
    /\ session_mutex_' = IF session_mutex_ = t THEN NoThread ELSE session_mutex_
    /\ pc' = [pc EXCEPT ![t] = "statistics"]

\* send is called: start_time is taken and validate_request runs (before the
\* lock is taken); a Request that fails validation ends the call in the catch
SendCall(t, request, dt) ==
    /\ pc[t] = "idle"
    /\ sends_started < MaxSends
    /\ sends_started' = sends_started + 1
    /\ UNCHANGED config_calls
    /\ req' = [req EXCEPT ![t] = request]
    /\ locals' = [locals EXCEPT ![t] = NoLocals]
    /\ IF validate_request(request) # "ok"
       THEN /\ Throw(t, [NoResult EXCEPT !.kind = "RequestException"], dt)
       ELSE /\ pc' = [pc EXCEPT ![t] = "lock"]
            /\ result' = [result EXCEPT ![t] = NoResult]
            /\ UNCHANGED <<request_count_, total_response_time_, elapsed_sum, session_mutex_>>
    /\ UNCHANGED <<curl_handle_, is_valid_, opts, last_write, settings,
                   cookie_jar_path_, default_headers_, default_cookies_, average_call>>
    /\ delivered' = [delivered EXCEPT ![t] = NoDelivery]
    /\ response' = [response EXCEPT ![t] = NoResponse]
    /\ status_check' = [status_check EXCEPT ![t] = NoStatusCheck]
    /\ UNCHANGED <<poolVars, moveVars, collectionVars>>

\* std::lock_guard<std::mutex> lock(session_mutex_): blocks while another
\* thread holds the mutex
MutexFree_Always == TRUE
MutexFree == session_mutex_ = NoThread

SendLock(t, dt) ==
    /\ pc[t] = "lock"
    /\ MutexFree
    /\ IF ~curl_handle_
       THEN /\ Throw(t, [result[t] EXCEPT !.kind = "RequestException"], dt)
            /\ UNCHANGED <<sends_started, config_calls>>
       ELSE /\ session_mutex_' = t
            /\ pc' = [pc EXCEPT ![t] = "reset"]
            /\ UNCHANGED <<request_count_, total_response_time_, elapsed_sum, result,
                           sends_started, config_calls>>
    /\ UNCHANGED <<curl_handle_, is_valid_, opts, last_write, settings, cookie_jar_path_,
                   default_headers_, default_cookies_, average_call, req, locals>>
    /\ UNCHANGED replyVars
    /\ UNCHANGED <<poolVars, moveVars, collectionVars>>

\* the handle holds a per-Request option that this Request does not set
CarriesStale(o, request) ==
    \/ o.USERPWD # <<>> /\ request.auth_.type = "None"
    \/ o.MIMEPOST # <<>> /\ request.files_ = <<>>
    \/ o.POSTFIELDS # "unset" /\ request.body_ = ""
    \/ o.NOBODY = 1 /\ request.method_ # "HEAD"
    \/ o.WRITEDATA = "file" /\ request.output_file_path_ = ""
    \/ o.HTTPHEADER # <<>> /\ request.headers_ = <<>> /\ default_headers_ = <<>>
    \/ o.FOLLOWLOCATION = 1 /\ ~request.allow_redirects_.value

\* curl_easy_reset(handle); apply_safety_settings(); apply_performance_settings()
SendReset(t) ==
    /\ pc[t] = "reset"
    /\ opts' = ResetAndReapply(opts)
    /\ last_write' = WriteBy(t)
    /\ result' = [result EXCEPT ![t] = [@ EXCEPT !.reset = TRUE,
                                                  !.stale = CarriesStale(opts, req[t])]]
    /\ pc' = [pc EXCEPT ![t] = "configure"]
    /\ UNCHANGED <<curl_handle_, is_valid_, session_mutex_, settings, cookie_jar_path_,
                   default_headers_, default_cookies_, average_call, request_count_, total_response_time_, req, locals,
                   sends_started, config_calls, elapsed_sum>>
    /\ UNCHANGED replyVars
    /\ UNCHANGED <<poolVars, moveVars, collectionVars>>

\* CURLOPT_URL and CURLOPT_CUSTOMREQUEST
ConfigUrl(o, request) ==
    [o EXCEPT !.URL = FullUrl(request), !.CUSTOMREQUEST = request.method_]

\* the parts of the multipart body: the files, then the Params as form fields
MimeParts(request) ==
    [i \in 1..Len(request.files_) |->
        [name |-> request.files_[i].name, filedata |-> request.files_[i].path]]
    \o [i \in 1..Len(request.params_) |->
        [name |-> request.params_[i].name, data |-> request.params_[i].value]]

\* file uploads take precedence over a raw body
ConfigBody(o, request) ==
    IF request.files_ # <<>> THEN [o EXCEPT !.MIMEPOST = MimeParts(request)]
    ELSE IF request.body_ # "" THEN [o EXCEPT !.POSTFIELDS = request.body_]
    ELSE o

\* the output sink: a file, nothing (HEAD), or the in-memory body
ConfigOutput(o, request) ==
    IF request.output_file_path_ # "" THEN [o EXCEPT !.WRITEDATA = "file"]
    ELSE IF request.method_ = "HEAD" THEN [o EXCEPT !.NOBODY = 1, !.WRITEDATA = "null"]
    ELSE [o EXCEPT !.NOBODY = 0, !.WRITEDATA = "memory"]

\* headers, cookies, authentication and redirects. COOKIELIST is what this
\* configuration hands to CURLOPT_COOKIELIST, one name=value at a time: the
\* default cookies, a Request cookie replacing a default of its name.
ConfigRest(o, request) ==
    LET o0 == IF EffectiveHeaders(request) # <<>>
              THEN [o EXCEPT !.HTTPHEADER = EffectiveHeaders(request)] ELSE o
        o1 == [o0 EXCEPT !.COOKIELIST =
                  [k \in (DOMAIN default_cookies_) \cup (DOMAIN request.cookies_) |->
                      IF k \in DOMAIN request.cookies_ THEN request.cookies_[k]
                      ELSE default_cookies_[k]]]
        o2 == IF request.auth_.type # "None"
              THEN [o1 EXCEPT !.USERPWD = <<request.auth_.username, ":", request.auth_.password>>,
                              !.HTTPAUTH = request.auth_.type]
              ELSE o1
    IN  IF request.allow_redirects_.value
        THEN [o2 EXCEPT !.FOLLOWLOCATION = 1,
                        !.MAXREDIRS = request.allow_redirects_.max_redirects]
        ELSE [o2 EXCEPT !.FOLLOWLOCATION = 0]

\* the Request is mapped onto the handle's options. mime_ok and fopen_ok are
\* the outcomes of curl_mime_init and fopen.
SendConfigure(t, mime_ok, fopen_ok, dt) ==
    /\ pc[t] = "configure"
    /\ LET request == req[t]
           wants_mime == request.files_ # <<>>
           wants_file == request.output_file_path_ # ""
           o1 == ConfigUrl(opts, request)
           o2 == ConfigBody(o1, request)
           o3 == ConfigOutput(o2, request)
       IN
       /\ (~wants_mime => mime_ok)
       /\ (~wants_file \/ (wants_mime /\ ~mime_ok) => fopen_ok)
       /\ last_write' = WriteBy(t)
       /\ IF wants_mime /\ ~mime_ok
          THEN \* "Failed to initialize MIME structure"
               /\ opts' = o1
               /\ UNCHANGED locals
               /\ Throw(t, [result[t] EXCEPT !.kind = "RequestException"], dt)
          ELSE IF wants_file /\ ~fopen_ok
          THEN \* "Failed to open output file"
               /\ opts' = o2
               /\ locals' = [locals EXCEPT ![t].mime = wants_mime]
               /\ Throw(t, [result[t] EXCEPT !.kind = "RequestException"], dt)
          ELSE /\ opts' = ConfigRest(o3, request)
               /\ locals' = [locals EXCEPT ![t] =
                     [mime |-> wants_mime,
                      chunk |-> EffectiveHeaders(request) # <<>>,
                      output_file |-> wants_file]]
               /\ pc' = [pc EXCEPT ![t] = "perform"]
               /\ UNCHANGED <<request_count_, total_response_time_, elapsed_sum, result,
                              session_mutex_>>
    /\ UNCHANGED <<curl_handle_, is_valid_, settings, cookie_jar_path_, default_headers_, default_cookies_, average_call,
                   req, sends_started, config_calls>>
    /\ UNCHANGED replyVars
    /\ UNCHANGED <<poolVars, moveVars, collectionVars>>

\* res = curl_easy_perform(handle): the engine's own outcome is res and the
\* reply it delivers is delivery; the header lines go through
\* safe_header_callback and, when the sink is the in-memory body, the body
\* through safe_write_callback; a line or a chunk a callback refuses aborts
\* the transfer
SendPerform(t, res, delivery) ==
    /\ pc[t] = "perform"
    /\ EngineHonoursTimeout(res, delivery.took)
    /\ EngineFollowsRedirects(res, delivery)
    /\ EngineHonoursMaxFileSize(res, delivery.body)
    /\ LET captured == CaptureHeaders(<<>>, delivery.header_lines)
           written == IF res = "CURLE_OK" /\ captured.ok /\ opts.WRITEDATA = "memory"
                      THEN WriteBody(delivery.body)
                      ELSE [length |-> 0, ok |-> TRUE]
           final == IF res = "CURLE_OK" /\ (~captured.ok \/ ~written.ok)
                    THEN "CURLE_WRITE_ERROR" ELSE res
       IN
       /\ result' = [result EXCEPT ![t] = [@ EXCEPT !.res = final, !.performed = TRUE]]
       /\ delivered' = [delivered EXCEPT ![t] =
              [engine_res |-> res, response_code |-> delivery.response_code,
               header_lines |-> delivery.header_lines, took |-> delivery.took,
               body_length |-> delivery.body.chunk * delivery.body.chunks,
               response_headers |-> captured.headers_,
               response_body |-> written.length]]
    /\ pc' = [pc EXCEPT ![t] = "complete"]
    /\ UNCHANGED <<curl_handle_, is_valid_, session_mutex_, opts, last_write, settings,
                   cookie_jar_path_, default_headers_, default_cookies_, average_call, request_count_, total_response_time_,
                   req, locals, sends_started, config_calls, elapsed_sum>>
    /\ UNCHANGED <<response, status_check>>
    /\ UNCHANGED <<poolVars, moveVars, collectionVars>>

\* after the transfer: on CURLE_OK the Response is assembled and
\* update_statistics starts with its first fetch_add (request_count_);
\* otherwise the error for res is thrown, past the cleanup, into the catch
SendComplete(t, dt) ==
    /\ pc[t] = "complete"
    /\ IF result[t].res = "CURLE_OK"
       THEN /\ request_count_' =
                  update_statistics(request_count_, total_response_time_, dt).count
            /\ result' = [result EXCEPT ![t].response_time = dt]
            /\ pc' = [pc EXCEPT ![t] = "statistics"]
            /\ UNCHANGED <<total_response_time_, elapsed_sum, session_mutex_>>
       ELSE /\ Throw(t, [result[t] EXCEPT !.kind = ErrorKind(result[t].res)], dt)
    /\ UNCHANGED <<curl_handle_, is_valid_, opts, last_write, settings, cookie_jar_path_,
                   default_headers_, default_cookies_, average_call, req, locals, sends_started,
                   config_calls>>
    /\ UNCHANGED <<delivered, response, status_check>>
    /\ UNCHANGED <<poolVars, moveVars, collectionVars>>

\* the second fetch_add of update_statistics (total_response_time_), and the
\* end of the call: after a transfer that gave CURLE_OK the per-call
\* resources are freed, the Response is returned and the lock_guard released;
\* in the catch the exception is rethrown
SendStatistics(t) ==
    /\ pc[t] = "statistics"
    /\ total_response_time_' =
           update_statistics(request_count_, total_response_time_,
                             result[t].response_time).total
    /\ elapsed_sum' = elapsed_sum + result[t].response_time
    /\ IF result[t].kind = "none"
       THEN /\ locals' = [locals EXCEPT ![t] = NoLocals]
            /\ result' = [result EXCEPT ![t] =
                   [@ EXCEPT !.kind = SendOutcome(delivered[t].response_code),
                             !.response_time = 0]]
            /\ response' = [response EXCEPT ![t] = BuildResponse(req[t], delivered[t])]
            /\ session_mutex_' = NoThread
       ELSE /\ result' = [result EXCEPT ![t].response_time = 0]
            /\ UNCHANGED <<locals, response, session_mutex_>>
    /\ pc' = [pc EXCEPT ![t] = "idle"]
    /\ UNCHANGED <<curl_handle_, is_valid_, opts, last_write, settings, cookie_jar_path_,
                   default_headers_, default_cookies_, average_call, request_count_, req, sends_started,
                   config_calls>>
    /\ UNCHANGED <<delivered, status_check>>
    /\ UNCHANGED <<poolVars, moveVars, collectionVars>>

\* the elapsed times of the calls request_count_ includes: those of the
\* calls that have ended and those of the calls inside update_statistics
RECURSIVE CountedTime(_)
CountedTime(T) ==
    IF T = {} THEN elapsed_sum
    ELSE LET t == CHOOSE u \in T : TRUE IN
         (IF pc[t] = "statistics" THEN result[t].response_time ELSE 0)
            + CountedTime(T \ {t})

\* get_average_response_time, first load: stats_mutex_ is taken (no other
\* function takes it, update_statistics does not) and request_count_ loaded
AverageLoadCount ==
    /\ average_call.pc = "idle"
    /\ average_call.calls < MaxReads
    /\ average_call' = [pc |-> "loaded", count |-> request_count_,
                        counted_time |-> CountedTime(Threads), returned |-> FALSE,
                        value |-> [num |-> 0, den |-> 1],
                        calls |-> average_call.calls + 1]
    /\ UNCHANGED <<curl_handle_, is_valid_, session_mutex_, opts, last_write, settings,
                   cookie_jar_path_, default_headers_, default_cookies_, request_count_,
                   total_response_time_, pc, req, locals, result, sends_started,
                   config_calls, elapsed_sum>>
    /\ UNCHANGED replyVars
    /\ UNCHANGED <<poolVars, moveVars, collectionVars>>

\* get_average_response_time, second load and return: total_response_time_
\* is loaded when the count is positive, and the quotient returned
AverageReturn ==
    /\ average_call.pc = "loaded"
    /\ average_call' = [average_call EXCEPT
           !.pc = "idle", !.returned = TRUE,
           !.value = get_average_response_time(average_call.count, total_response_time_)]
    /\ UNCHANGED <<curl_handle_, is_valid_, session_mutex_, opts, last_write, settings,
                   cookie_jar_path_, default_headers_, default_cookies_, request_count_,
                   total_response_time_, pc, req, locals, result, sends_started,
                   config_calls, elapsed_sum>>
    /\ UNCHANGED replyVars
    /\ UNCHANGED <<poolVars, moveVars, collectionVars>>

----------------------------------------------------------------------------
(* RESPONSE (Response.cpp) and the calls a caller makes on it              *)

\* RESPONSE::ok()
ok(r) == r.statusCode >= 200 /\ r.statusCode < 300

\* RESPONSE::is_success()
is_success(r) == r.statusCode >= 200 /\ r.statusCode < 300

\* RESPONSE::raise_for_status(): the exception it throws, or "none"
raise_for_status(r) == IF ~ok(r) THEN "HTTPError" ELSE "none"

\* RESPONSE r; r.statusCode = status_code (statusCode is a public member)
MakeResponse(t, status_code) ==
    /\ pc[t] = "idle"
    /\ response' = [response EXCEPT ![t] =
           [NoResponse EXCEPT !.present = TRUE, !.statusCode = status_code]]
    /\ status_check' = [status_check EXCEPT ![t] = NoStatusCheck]
    /\ UNCHANGED <<curl_handle_, is_valid_, session_mutex_, opts, last_write, settings,
                   cookie_jar_path_, default_headers_, default_cookies_, average_call, request_count_, total_response_time_,
                   pc, req, locals, result, sends_started, config_calls, elapsed_sum,
                   delivered>>
    /\ UNCHANGED <<poolVars, moveVars, collectionVars>>

\* the caller asks its RESPONSE ok(), is_success() and raise_for_status();
\* all three are const members
CheckStatus(t) ==
    /\ pc[t] = "idle"
    /\ response[t].present
    /\ ~status_check[t].called
    /\ status_check' = [status_check EXCEPT ![t] =
           [called |-> TRUE, ok |-> ok(response[t]), is_success |-> is_success(response[t]),
            raised |-> raise_for_status(response[t])]]
    /\ UNCHANGED <<curl_handle_, is_valid_, session_mutex_, opts, last_write, settings,
                   cookie_jar_path_, default_headers_, default_cookies_, average_call, request_count_, total_response_time_,
                   pc, req, locals, result, sends_started, config_calls, elapsed_sum,
                   delivered, response>>
    /\ UNCHANGED <<poolVars, moveVars, collectionVars>>

\* replies of the engine: the status code, the header lines as the engine
\* hands them to the header callback, and the seconds the transfer took.
\* slow takes five seconds; cookie carries Set-Cookie lines and one other
\* header; not_found has status 404; http starts with its status line;
\* found is a redirect as a server sends it (status line, Location), and
\* moved the same redirect without the status line.
Reply ==
    LET StatusLine ==
            <<"H", "T", "T", "P", "/", "1", ".", "1", " ", "2", "0", "0",
              " ", "O", "K", "\r", "\n">>
        SessionCookieLine ==
            <<"S", "e", "t", "-", "C", "o", "o", "k", "i", "e", ":", " ",
              "s", "e", "s", "s", "i", "o", "n", "=", "a", "b", "c", "1", "2",
              "3", ";", " ", "P", "a", "t", "h", "=", "/", "\r", "\n">>
        PlainCookieLine ==
            <<"S", "e", "t", "-", "C", "o", "o", "k", "i", "e", ":", " ",
              "a", "=", "b", "=", "c", "\r", "\n">>
        NoValueCookieLine ==
            <<"S", "e", "t", "-", "C", "o", "o", "k", "i", "e", ":", " ",
              "f", "l", "a", "g", "\r", "\n">>
        ContentTypeLine ==
            <<"C", "o", "n", "t", "e", "n", "t", "-", "T", "y", "p", "e",
              ":", " ", "t", "e", "x", "t", "/", "h", "t", "m", "l", "\r",
              "\n">>
        FoundLine ==
            <<"H", "T", "T", "P", "/", "1", ".", "1", " ", "3", "0", "2",
              " ", "F", "o", "u", "n", "d", "\r", "\n">>
        LocationLine ==
            <<"L", "o", "c", "a", "t", "i", "o", "n", ":", " ", "/", "b", "\r", "\n">>
        BlankLine == <<"\r", "\n">>
    IN
    [slow |-> [response_code |-> 200, header_lines |-> <<>>, took |-> 5, body |-> NoBody],
     cookie |-> [response_code |-> 200,
                 header_lines |-> <<SessionCookieLine, ContentTypeLine, NoValueCookieLine,
                                    PlainCookieLine, BlankLine>>,
                 took |-> 1, body |-> NoBody],
     not_found |-> [response_code |-> 404,
                    header_lines |-> <<ContentTypeLine, BlankLine>>, took |-> 1, body |-> NoBody],
     http |-> [response_code |-> 200,
               header_lines |-> <<StatusLine, SessionCookieLine, BlankLine>>,
               took |-> 1, body |-> NoBody],
     found |-> [response_code |-> 302,
                header_lines |-> <<FoundLine, LocationLine, BlankLine>>, took |-> 1, body |-> NoBody],
     moved |-> [response_code |-> 302,
                header_lines |-> <<LocationLine, BlankLine>>, took |-> 1, body |-> NoBody]]

Replies ==
    {BareReply, Reply.slow, Reply.cookie, Reply.not_found, Reply.http, Reply.found,
     Reply.moved}

----------------------------------------------------------------------------
(* Session: configuration methods                                          *)

\* one more configuration call is made by thread t, which is not inside send
ConfigCall(t) ==
    /\ pc[t] = "idle"
    /\ config_calls < MaxConfigCalls
    /\ config_calls' = config_calls + 1

\* a method that takes std::lock_guard<std::mutex> lock(session_mutex_) for
\* its whole body runs when the mutex is free, and its writes are under it
UnderLock(t) == [by |-> t, locked |-> TRUE]

\* set_default_headers(headers), under session_mutex_
SetDefaultHeaders(t, headers) ==
    /\ ConfigCall(t)
    /\ MutexFree
    /\ default_headers_' = headers
    /\ UNCHANGED <<curl_handle_, is_valid_, session_mutex_, opts, last_write, settings,
                   cookie_jar_path_, default_cookies_, average_call, request_count_, total_response_time_, pc, req, locals,
                   result, sends_started, elapsed_sum>>
    /\ UNCHANGED replyVars
    /\ UNCHANGED <<poolVars, moveVars, collectionVars>>

\* set_default_cookies(cookies), under session_mutex_
SetDefaultCookies(t, cookies) ==
    /\ ConfigCall(t)
    /\ MutexFree
    /\ default_cookies_' = cookies
    /\ UNCHANGED <<curl_handle_, is_valid_, session_mutex_, opts, last_write, settings,
                   cookie_jar_path_, default_headers_, request_count_, total_response_time_,
                   pc, req, locals, result, sends_started, elapsed_sum, average_call>>
    /\ UNCHANGED replyVars
    /\ UNCHANGED <<poolVars, moveVars, collectionVars>>

\* set_cookie_jar(file_path), under session_mutex_
SetCookieJar(t, file_path) ==
    /\ ConfigCall(t)
    /\ MutexFree
    /\ cookie_jar_path_' = file_path
    /\ IF curl_handle_
       THEN /\ opts' = [opts EXCEPT !.COOKIEFILE = file_path, !.COOKIEJAR = file_path]
            /\ last_write' = UnderLock(t)
       ELSE UNCHANGED <<opts, last_write>>
    /\ UNCHANGED <<curl_handle_, is_valid_, session_mutex_, settings, default_headers_, default_cookies_, average_call,
                   request_count_, total_response_time_, pc, req, locals, result,
                   sends_started, elapsed_sum>>
    /\ UNCHANGED replyVars
    /\ UNCHANGED <<poolVars, moveVars, collectionVars>>

\* Session::reset(), under session_mutex_
Reset_ClearsDefaults(t) ==
    /\ ConfigCall(t)
    /\ MutexFree
    /\ IF curl_handle_
       THEN /\ opts' = ResetAndReapply(opts)
            /\ last_write' = UnderLock(t)
       ELSE UNCHANGED <<opts, last_write>>
    /\ default_headers_' = <<>>
    /\ default_cookies_' = <<>>
    /\ UNCHANGED <<curl_handle_, is_valid_, session_mutex_, settings, cookie_jar_path_,
                   request_count_, total_response_time_, pc, req, locals,
                   result, sends_started, elapsed_sum, average_call>>
    /\ UNCHANGED replyVars
    /\ UNCHANGED <<poolVars, moveVars, collectionVars>>
Reset(t) ==
    /\ ConfigCall(t)
    /\ MutexFree
    /\ IF curl_handle_
       THEN /\ opts' = ResetAndReapply(opts)
            /\ last_write' = UnderLock(t)
       ELSE UNCHANGED <<opts, last_write>>
    /\ UNCHANGED <<curl_handle_, is_valid_, session_mutex_, settings, cookie_jar_path_,
                   default_headers_, default_cookies_, average_call, request_count_,
                   total_response_time_, pc, req, locals, result, sends_started,
                   elapsed_sum>>
    /\ UNCHANGED replyVars
    /\ UNCHANGED <<poolVars, moveVars, collectionVars>>

\* release_session(session), under pool_mutex_; pool_cv_ is not notified.
\* keep: whether the caller keeps its shared_ptr after the call.
\* A Session found in the in-use list is reset (session->reset(), which
\* takes its session_mutex_) before it goes back to the idle list; the
\* Session variables hold the state of the first Session the pool made.
\* (SessionPool::release_session, defined here because it calls Session::reset)
ReleaseSession(c, session, keep) ==
    /\ caller_pc[c] = "idle"
    /\ session \in ptrs[c] \cup {NullSession, ForeignSession}
    /\ LET it == FindFirst(in_use_sessions_, session) IN
       IF session # NullSession /\ it # 0
       THEN /\ in_use_sessions_' = EraseAt(in_use_sessions_, it)
            /\ available_sessions_' =
                  IF Len(available_sessions_) < max_size_
                  THEN Append(available_sessions_, session)
                  ELSE available_sessions_
            /\ IF session = 1 /\ curl_handle_
               THEN /\ MutexFree
                    /\ opts' = ResetAndReapply(opts)
                    /\ last_write' = UnderLock("caller")
               ELSE UNCHANGED <<opts, last_write>>
       ELSE UNCHANGED <<in_use_sessions_, available_sessions_, opts, last_write>>
    /\ ptrs' = [ptrs EXCEPT ![c] = IF keep THEN @ ELSE @ \ {session}]
    /\ UNCHANGED <<curl_handle_, is_valid_, session_mutex_, settings, cookie_jar_path_,
                   default_headers_, default_cookies_, average_call, request_count_, total_response_time_,
                   pc, req, locals, result, sends_started, config_calls, elapsed_sum,
                   delivered, response, status_check>>
    /\ UNCHANGED <<pool_arg, max_size_, created, caller_pc, moveVars, collectionVars>>

\* the performance setters take no lock: the member is assigned and, when
\* there is a handle, the option is written by the calling thread at once
UnlockedSetter(t, new_settings, new_opts) ==
    /\ ConfigCall(t)
    /\ settings' = new_settings
    /\ IF curl_handle_
       THEN /\ opts' = new_opts
            /\ last_write' = WriteBy(t)
       ELSE UNCHANGED <<opts, last_write>>
    /\ UNCHANGED <<curl_handle_, is_valid_, session_mutex_, cookie_jar_path_,
                   default_headers_, default_cookies_, average_call, request_count_,
                   total_response_time_, pc, req, locals, result, sends_started,
                   elapsed_sum>>
    /\ UNCHANGED replyVars
    /\ UNCHANGED <<poolVars, moveVars, collectionVars>>

\* if (seconds < 0.0) seconds = 0.0
ClampSeconds(seconds) == IF seconds < 0 THEN 0 ELSE seconds

\* set_connection_timeout(seconds)
SetConnectionTimeout(t, seconds) ==
    UnlockedSetter(t, [settings EXCEPT !.connection_timeout_ = ClampSeconds(seconds)],
                      [opts EXCEPT !.CONNECTTIMEOUT = ClampSeconds(seconds)])

\* set_transfer_timeout(seconds)
SetTransferTimeout(t, seconds) ==
    UnlockedSetter(t, [settings EXCEPT !.transfer_timeout_ = ClampSeconds(seconds)],
                      [opts EXCEPT !.TIMEOUT = ClampSeconds(seconds)])

\* set_max_connections_per_host(max_conns)
SetMaxConnectionsPerHost(t, max_conns) ==
    UnlockedSetter(t, [settings EXCEPT !.max_connections_per_host_ = max_conns],
                      [opts EXCEPT !.MAXCONNECTS = max_conns])

\* set_keep_alive(enable)
SetKeepAlive(t, enable) ==
    UnlockedSetter(t, [settings EXCEPT !.keep_alive_enabled_ = enable],
                      [opts EXCEPT !.TCP_KEEPALIVE = IF enable THEN 1 ELSE 0])

\* set_compression(enable)
SetCompression(t, enable) ==
    UnlockedSetter(t, [settings EXCEPT !.compression_enabled_ = enable],
                      [opts EXCEPT !.ACCEPT_ENCODING = IF enable THEN "gzip,deflate" ELSE ""])

----------------------------------------------------------------------------
(* Session objects: construction, moves, destruction                       *)

\* the storage places in which Session objects live
Slots == {"session1", "session2", "session3"}

\* largest number of transport handles curl_easy_init returns
MaxHandles == 2

\* largest request count a Session object reaches
MaxObjectSends == 1

\* curl_handle_ == nullptr
NullHandle == 0

Handles == 1..MaxHandles

\* no Session object lives in the slot (never constructed, or destroyed)
NoObject ==
    [alive |-> FALSE, curl_handle_ |-> NullHandle, is_valid_ |-> FALSE,
     cookie_jar_path_ |-> "", request_count_ |-> 0]

NoOp == [op |-> "none", dst |-> "none", src |-> "none", held |-> NullHandle,
         freed |-> NullHandle]

\* Session::is_valid()
IsValid(o) == o.is_valid_ /\ o.curl_handle_ # NullHandle

\* the Sessions that own handle h
Owners(h) == {s \in Slots : objects[s].alive /\ objects[s].curl_handle_ = h}

\* CurlHandleDeleter: curl_easy_cleanup(handle)
Cleanup(rel, h) == [rel EXCEPT ![h] = @ + 1]

\* the moved-from Session of a mutant move that copies the handle pointer
MovedFrom_KeepsHandle(o, jar) ==
    [o EXCEPT !.is_valid_ = FALSE, !.request_count_ = 0, !.cookie_jar_path_ = jar]

\* what a move leaves in the Session it moved from: the unique_ptr is null,
\* is_valid_ false, the counters zero; the moved-from string is jar (valid
\* but unspecified: empty or unchanged)
MovedFrom(o, jar) ==
    [o EXCEPT !.curl_handle_ = NullHandle, !.is_valid_ = FALSE, !.request_count_ = 0,
              !.cookie_jar_path_ = jar]

\* what a move puts in its target: every member of the source
MovedTo(o) == [o EXCEPT !.alive = TRUE]

\* Session::Session(bool): initialize_curl_handle; when curl_easy_init
\* returns null the constructor throws and no object exists
Construct(s, init_ok) ==
    /\ ~objects[s].alive
    /\ handles_made < MaxHandles
    /\ IF init_ok
       THEN /\ handles_made' = handles_made + 1
            /\ objects' = [objects EXCEPT ![s] =
                   [alive |-> TRUE, curl_handle_ |-> handles_made + 1, is_valid_ |-> TRUE,
                    cookie_jar_path_ |-> "", request_count_ |-> 0]]
            /\ last_op' = [NoOp EXCEPT !.op = "construct"]
       ELSE /\ UNCHANGED <<handles_made, objects>>
            /\ last_op' = [NoOp EXCEPT !.op = "construct_failed"]
    /\ UNCHANGED <<released, jar_at_release>>
    /\ UNCHANGED <<poolVars, sessionVars, collectionVars>>

\* set_cookie_jar(file_path) on one of the objects
ObjectSetCookieJar(s, file_path) ==
    /\ objects[s].alive
    /\ objects[s].cookie_jar_path_ # file_path
    /\ objects' = [objects EXCEPT ![s].cookie_jar_path_ = file_path]
    /\ last_op' = [NoOp EXCEPT !.op = "set_cookie_jar"]
    /\ UNCHANGED <<handles_made, released, jar_at_release>>
    /\ UNCHANGED <<poolVars, sessionVars, collectionVars>>

\* a send on one of the objects, as far as the members a move carries go:
\* the call is counted whether it returns or throws
ObjectSend(s) ==
    /\ objects[s].alive
    /\ objects[s].request_count_ < MaxObjectSends
    /\ objects' = [objects EXCEPT ![s].request_count_ = @ + 1]
    /\ last_op' = [NoOp EXCEPT !.op = "send"]
    /\ UNCHANGED <<handles_made, released, jar_at_release>>
    /\ UNCHANGED <<poolVars, sessionVars, collectionVars>>

\* cleanup_curl_handle() of object o: with a handle, set CURLOPT_COOKIEJAR
\* when a jar path is kept and release the handle
ReleasedBy(o) == IF o.curl_handle_ # NullHandle THEN Cleanup(released, o.curl_handle_)
                 ELSE released

JarBy(o) == IF o.curl_handle_ # NullHandle /\ o.cookie_jar_path_ # ""
            THEN [jar_at_release EXCEPT ![o.curl_handle_] = o.cookie_jar_path_]
            ELSE jar_at_release

\* Session::Session(Session&& other): dst is a new object made from src
MoveConstruct(dst, src, jar) ==
    /\ dst # src
    /\ ~objects[dst].alive
    /\ objects[src].alive
    /\ objects' = [objects EXCEPT ![dst] = MovedTo(objects[src]),
                                  ![src] = MovedFrom(objects[src], jar)]
    /\ last_op' = [op |-> "move_construct", dst |-> dst, src |-> src,
                   held |-> objects[src].curl_handle_, freed |-> NullHandle]
    /\ UNCHANGED <<handles_made, released, jar_at_release>>
    /\ UNCHANGED <<poolVars, sessionVars, collectionVars>>

\* Session::operator=(Session&& other); dst = src is self-assignment
MoveAssign(dst, src, jar) ==
    /\ objects[dst].alive
    /\ objects[src].alive
    /\ IF dst # src
       THEN /\ released' = ReleasedBy(objects[dst])
            /\ jar_at_release' = JarBy(objects[dst])
            /\ objects' = [objects EXCEPT ![dst] = MovedTo(objects[src]),
                                          ![src] = MovedFrom(objects[src], jar)]
            /\ last_op' = [op |-> "move_assign", dst |-> dst, src |-> src,
                           held |-> objects[src].curl_handle_,
                           freed |-> objects[dst].curl_handle_]
       ELSE /\ UNCHANGED <<released, jar_at_release, objects>>
            /\ last_op' = [op |-> "move_assign", dst |-> dst, src |-> src,
                           held |-> objects[src].curl_handle_, freed |-> NullHandle]
    /\ UNCHANGED handles_made
    /\ UNCHANGED <<poolVars, sessionVars, collectionVars>>

\* Session::~Session(): cleanup_curl_handle, and the object is gone
Destroy(s) ==
    /\ objects[s].alive
    /\ released' = ReleasedBy(objects[s])
    /\ jar_at_release' = JarBy(objects[s])
    /\ objects' = [objects EXCEPT ![s] = NoObject]
    /\ last_op' = [op |-> "destroy", dst |-> s, src |-> "none",
                   held |-> objects[s].curl_handle_, freed |-> objects[s].curl_handle_]
    /\ UNCHANGED handles_made
    /\ UNCHANGED <<poolVars, sessionVars, collectionVars>>

\* no Session object has been constructed
InitMove ==
    /\ objects = [s \in Slots |-> NoObject]
    /\ handles_made = 0
    /\ released = [h \in Handles |-> 0]
    /\ jar_at_release = [h \in Handles |-> ""]
    /\ last_op = NoOp

\* the jar after a move out of object o: empty, or left as it was
MovedFromJars(o) == {"", o.cookie_jar_path_}

NextMove ==
    \/ \E s \in Slots, init_ok \in BOOLEAN : Construct(s, init_ok)
    \/ \E s \in Slots : ObjectSetCookieJar(s, "jar.txt")
    \/ \E s \in Slots : ObjectSend(s)
    \/ \E dst, src \in Slots : \E jar \in MovedFromJars(objects[src]) :
          MoveConstruct(dst, src, jar)
    \/ \E dst, src \in Slots : \E jar \in MovedFromJars(objects[src]) :
          MoveAssign(dst, src, jar)
    \/ \E s \in Slots : Destroy(s)

----------------------------------------------------------------------------
(* Specifications                                                          *)

\* Session::Session and initialize_curl_handle; has_handle = FALSE is a
\* Session that has been moved from (null handle, is_valid_ false)
InitSessionWith(has_handle) ==
    /\ curl_handle_ = has_handle
    /\ is_valid_ = has_handle
    /\ session_mutex_ = NoThread
    /\ settings = DefaultSettings
    /\ opts = IF has_handle
              THEN [apply_performance_settings(apply_safety_settings(CurlDefaults))
                       EXCEPT !.COOKIEFILE = "", !.ACCEPT_ENCODING = ""]
              ELSE CurlDefaults
    /\ last_write = [by |-> NoThread, locked |-> TRUE]
    /\ cookie_jar_path_ = ""
    /\ default_headers_ = <<>>
    /\ default_cookies_ = <<>>
    /\ request_count_ = 0
    /\ total_response_time_ = 0
    /\ pc = [t \in Threads |-> "idle"]
    /\ req = [t \in Threads |-> DefaultRequest]
    /\ locals = [t \in Threads |-> NoLocals]
    /\ result = [t \in Threads |-> NoResult]
    /\ sends_started = 0
    /\ config_calls = 0
    /\ elapsed_sum = 0
    /\ delivered = [t \in Threads |-> NoDelivery]
    /\ response = [t \in Threads |-> NoResponse]
    /\ status_check = [t \in Threads |-> NoStatusCheck]
    /\ average_call = NoAverageCall

\* the threads T send the Requests R on the Session; a send takes one of the
\* times D, the engine's outcome is one of the codes C and the reply it
\* delivers one of E
NextSends(T, R, D, C, E) ==
    \/ \E t \in T, request \in R, dt \in D : SendCall(t, request, dt)
    \/ \E t \in T, dt \in D : SendLock(t, dt)
    \/ \E t \in T : SendReset(t)
    \/ \E t \in T, mime_ok \in BOOLEAN, fopen_ok \in BOOLEAN, dt \in D :
          SendConfigure(t, mime_ok, fopen_ok, dt)
    \/ \E t \in T, res \in C, delivery \in E : SendPerform(t, res, delivery)
    \/ \E t \in T, dt \in D : SendComplete(t, dt)
    \/ \E t \in T : SendStatistics(t)

\* the threads T call the configuration methods of the Session
NextConfig(T) ==
    \/ \E t \in T, headers \in {<<"X-Client: test">>} : SetDefaultHeaders(t, headers)
    \/ \E t \in T, file_path \in {"jar.txt"} : SetCookieJar(t, file_path)
    \/ \E t \in T : Reset(t)
    \/ \E t \in T, seconds \in {5} : SetConnectionTimeout(t, seconds)
    \/ \E t \in T, seconds \in {-1} : SetTransferTimeout(t, seconds)
    \/ \E t \in T, max_conns \in {15} : SetMaxConnectionsPerHost(t, max_conns)
    \/ \E t \in T, enable \in {FALSE} : SetKeepAlive(t, enable)
    \/ \E t \in T, enable \in BOOLEAN : SetCompression(t, enable)

----------------------------------------------------------------------------
(* Calls on a HEADERS object and on a COOKIES object                       *)

\* most lines a collection holds at a time, apart from one that was
\* filled up to the maximum count
MaxLines == 2

\* header names and values, and cookie names, the caller passes
Sample ==
    [Ab |-> <<"A", "b">>, aB |-> <<"a", "B">>, A |-> <<"A">>, F |-> <<"F">>,
     with_colon |-> <<"A", ":">>,
     long_name |-> [i \in 1..MAX_HEADER_NAME_SIZE |-> "n"],
     too_long_name |-> [i \in 1..(MAX_HEADER_NAME_SIZE + 1) |-> "n"],
     v |-> <<"v">>, tabbed |-> <<"v", "\t", "w">>, with_newline |-> <<"v", "\n">>,
     longest_value |-> [i \in 1..MAX_HEADER_VALUE_SIZE |-> "v"],
     too_long_value |-> [i \in 1..(MAX_HEADER_VALUE_SIZE + 1) |-> "v"],
     cookie_names |-> {<<"a">>, <<"b">>, <<"s", "i", "d">>}]

\* the arguments of add(key, value)
AddInputs ==
    {<<Sample.Ab, Sample.v>>, <<Sample.aB, <<>>>>, <<Sample.A, Sample.tabbed>>,
     <<Sample.long_name, Sample.v>>, <<Sample.too_long_name, Sample.v>>,
     <<Sample.Ab, Sample.too_long_value>>, <<Sample.with_colon, Sample.v>>,
     <<<<>>, Sample.v>>, <<Sample.Ab, Sample.with_newline>>}

\* the arguments of remove, get and has
LookupNames == {Sample.Ab, Sample.aB, Sample.A, Sample.F, Sample.with_colon}

NoCall == [op |-> "none", key |-> <<>>, value |-> <<>>, before |-> <<>>,
           thrown |-> "none", returned |-> Nullopt]

\* the record of a call: what was called, the collection before it, what
\* it threw and what it returned
CallRecord(op, key, value, before, thrown, returned) ==
    [op |-> op, key |-> key, value |-> value, before |-> before,
     thrown |-> thrown, returned |-> returned]

\* the model adds a line only to a collection below MaxLines or to one
\* within one line of the maximum count
MayGrow == Len(headers_) < MaxLines \/ Len(headers_) >= MAX_HEADERS_COUNT - 1

HeadersAdd(key, value) ==
    LET outcome == HEADERS_add(headers_, key, value) IN
    /\ MayGrow
    /\ headers_' = outcome.headers_
    /\ header_call' = CallRecord("add", key, value, headers_, outcome.thrown, Nullopt)
    /\ UNCHANGED <<cookies_, cookie_call>>
    /\ UNCHANGED <<poolVars, sessionVars, moveVars>>

HeadersAddLine(header_line) ==
    LET outcome == HEADERS_add_line(headers_, header_line) IN
    /\ MayGrow
    /\ headers_' = outcome.headers_
    /\ header_call' =
           CallRecord("add_line", header_line, <<>>, headers_, outcome.thrown, Nullopt)
    /\ UNCHANGED <<cookies_, cookie_call>>
    /\ UNCHANGED <<poolVars, sessionVars, moveVars>>

HeadersAddBulk(header_pairs) ==
    LET outcome == HEADERS_add_bulk(headers_, header_pairs) IN
    /\ MayGrow
    /\ headers_' = outcome.headers_
    /\ header_call' =
           CallRecord("add_bulk", header_pairs, <<>>, headers_, outcome.thrown, Nullopt)
    /\ UNCHANGED <<cookies_, cookie_call>>
    /\ UNCHANGED <<poolVars, sessionVars, moveVars>>

HeadersRemove(header_name) ==
    /\ headers_' = HEADERS_remove(headers_, header_name)
    /\ header_call' = CallRecord("remove", header_name, <<>>, headers_, "none", Nullopt)
    /\ UNCHANGED <<cookies_, cookie_call>>
    /\ UNCHANGED <<poolVars, sessionVars, moveVars>>

HeadersClear ==
    /\ headers_' = HEADERS_clear(headers_)
    /\ header_call' = CallRecord("clear", <<>>, <<>>, headers_, "none", Nullopt)
    /\ UNCHANGED <<cookies_, cookie_call>>
    /\ UNCHANGED <<poolVars, sessionVars, moveVars>>

\* get and has are const: the collection stays, the answer is recorded
HeadersGet(header_name) ==
    /\ header_call' = CallRecord("get", header_name, <<>>, headers_, "none",
                                 HEADERS_get(headers_, header_name))
    /\ UNCHANGED <<headers_, cookies_, cookie_call>>
    /\ UNCHANGED <<poolVars, sessionVars, moveVars>>

HeadersHas(header_name) ==
    /\ header_call' = CallRecord("has", header_name, <<>>, headers_, "none",
                                 IF HEADERS_has(headers_, header_name)
                                 THEN Some(<<"true">>) ELSE Nullopt)
    /\ UNCHANGED <<headers_, cookies_, cookie_call>>
    /\ UNCHANGED <<poolVars, sessionVars, moveVars>>

\* is_valid is const
HeadersIsValid ==
    /\ header_call' = CallRecord("is_valid", <<>>, <<>>, headers_, "none",
                                 IF HEADERS_is_valid(headers_)
                                 THEN Some(<<"true">>) ELSE Nullopt)
    /\ UNCHANGED <<headers_, cookies_, cookie_call>>
    /\ UNCHANGED <<poolVars, sessionVars, moveVars>>

CookiesAdd(key, value) ==
    /\ cookies_' = COOKIES_add(cookies_, key, value)
    /\ cookie_call' = CallRecord("add", key, value, cookies_, "none", Nullopt)
    /\ UNCHANGED <<headers_, header_call>>
    /\ UNCHANGED <<poolVars, sessionVars, moveVars>>

CookiesRemove(cookie_name) ==
    /\ cookies_' = COOKIES_remove(cookies_, cookie_name)
    /\ cookie_call' = CallRecord("remove", cookie_name, <<>>, cookies_, "none", Nullopt)
    /\ UNCHANGED <<headers_, header_call>>
    /\ UNCHANGED <<poolVars, sessionVars, moveVars>>

\* get is const: the map stays, the answer is recorded
CookiesGet(cookie_name) ==
    /\ cookie_call' = CallRecord("get", cookie_name, <<>>, cookies_, "none",
                                 COOKIES_get(cookies_, cookie_name))
    /\ UNCHANGED <<headers_, header_call, cookies_>>
    /\ UNCHANGED <<poolVars, sessionVars, moveVars>>

NextCookies ==
    \/ \E key \in Sample.cookie_names, value \in {<<"1">>, <<"2">>, <<>>} : CookiesAdd(key, value)
    \/ \E cookie_name \in Sample.cookie_names : CookiesRemove(cookie_name)
    \/ \E cookie_name \in Sample.cookie_names : CookiesGet(cookie_name)

\* HEADERS::HEADERS(initial_capacity), COOKIES() = default
InitCollections ==
    /\ headers_ = <<>>
    /\ header_call = NoCall
    /\ cookies_ = NoCookies
    /\ cookie_call = NoCall

NextHeaders ==
    \/ \E input \in AddInputs : HeadersAdd(input[1], input[2])
    \/ \E header_line \in {<<"A", ":", " ", "v">>, <<"A", "b">>, <<":", "v">>,
                            <<"A", "b", ":">>, <<>>} :
          HeadersAddLine(header_line)
    \/ \E header_pairs \in
              {<<[key |-> Sample.Ab, value |-> Sample.v], [key |-> Sample.A, value |-> <<>>]>>,
               <<[key |-> Sample.aB, value |-> Sample.v],
                 [key |-> Sample.with_colon, value |-> Sample.v]>>} :
          HeadersAddBulk(header_pairs)
    \/ \E header_name \in LookupNames : HeadersRemove(header_name)
    \/ HeadersClear
    \/ \E header_name \in LookupNames : HeadersGet(header_name)
    \/ \E header_name \in LookupNames : HeadersHas(header_name)

\* the calls that change a new HEADERS object, with arguments the calls
\* accept (among them a value of the greatest length add takes) and
\* arguments they refuse, and is_valid() after them
NextValid ==
    \/ \E input \in {<<Sample.Ab, Sample.v>>, <<Sample.A, Sample.longest_value>>,
                       <<Sample.aB, <<>>>>, <<Sample.with_colon, Sample.v>>,
                       <<Sample.Ab, Sample.with_newline>>} :
          HeadersAdd(input[1], input[2])
    \/ \E header_line \in {<<"A", ":", " ", "v">>, <<"A", "b">>, <<"A", "b", ":">>} :
          HeadersAddLine(header_line)
    \/ \E header_pairs \in
              {<<[key |-> Sample.Ab, value |-> Sample.v], [key |-> Sample.A, value |-> <<>>]>>,
               <<[key |-> Sample.aB, value |-> Sample.v],
                 [key |-> Sample.with_colon, value |-> Sample.v]>>} :
          HeadersAddBulk(header_pairs)
    \/ \E header_name \in {Sample.Ab, Sample.A} : HeadersRemove(header_name)
    \/ HeadersClear
    \/ HeadersIsValid

\* SessionPool::SessionPool(max_size)
InitPoolWith(max_size) ==
    /\ pool_arg = max_size
    /\ max_size_ = NormalizeMaxSize(pool_arg)
    /\ available_sessions_ = <<>>
    /\ in_use_sessions_ = <<>>
    /\ created = 0
    /\ caller_pc = [c \in Callers |-> "idle"]
    /\ ptrs = [c \in Callers |-> {}]

NextPool ==
    \/ \E c \in Callers : AcquireEnter(c)
    \/ \E c \in Callers : AcquireWake(c)
    \/ \E c \in Callers, s \in (0..created) \cup {ForeignSession}, keep \in BOOLEAN :
          ReleaseSession(c, s, keep)

InitPool ==
    /\ \E m \in 0..MaxPoolArg : InitPoolWith(m)
    /\ InitSessionWith(TRUE)
    /\ InitMove
    /\ InitCollections

SpecPool == InitPool /\ [][NextPool]_vars

InitSession ==
    /\ InitPoolWith(1)
    /\ \E h \in BOOLEAN : InitSessionWith(h)
    /\ InitMove
    /\ InitCollections

\* Session objects are constructed, moved and destroyed by one thread
InitObjects == InitPoolWith(1) /\ InitSessionWith(TRUE) /\ InitMove /\ InitCollections
SpecMove == InitObjects /\ [][NextMove]_vars

\* two threads share the Session: they send and call the configuration methods
NextSend ==
    \/ NextSends(Threads, {DefaultRequest, UploadRequest}, {1},
                 {"CURLE_OK", "CURLE_COULDNT_CONNECT"}, {BareReply})
    \/ NextConfig(Threads)
SpecSend == InitSession /\ [][NextSend]_vars

\* one thread uses the Session, with every kind of Request (among them a
\* HEAD request with basic authentication and an output file) and engine
\* result
NextSeq ==
    \/ NextSends({"t1"},
                 {DefaultRequest, UploadRequest,
                  [DefaultRequest EXCEPT !.method_ = "HEAD",
                                         !.output_file_path_ = WritablePath,
                                         !.auth_ = BasicAuth]} \cup OneFacetRequests,
                 {1}, EngineCodes, {BareReply})
    \/ NextConfig({"t1"})
SpecSeq == InitSession /\ [][NextSeq]_vars

\* one thread sends, the engine replies, and the caller checks the status
\* of the RESPONSE it got or of one it made; the Requests are the default
\* one, one with Params, one with a Timeout of a second, one with
\* VERIFY(false), one with REDIRECTS(false)
NextReply ==
    \/ NextSends({"t1"},
                 {DefaultRequest,
                  [DefaultRequest EXCEPT
                      !.params_ = <<[name |-> <<"q">>, value |-> <<"a", " ", "/">>],
                                    [name |-> <<"r">>, value |-> <<"7">>]>>],
                  [DefaultRequest EXCEPT !.timeout_ = 1],
                  [DefaultRequest EXCEPT !.verify_ = FALSE],
                  [DefaultRequest EXCEPT
                      !.allow_redirects_ = [value |-> FALSE, max_redirects |-> 0]]},
                 {1}, {"CURLE_OK", "CURLE_OPERATION_TIMEDOUT"}, Replies)
    \/ \E status_code \in {0, 100, 199, 200, 299, 300, 399, 400, 404, 500} :
          MakeResponse("t1", status_code)
    \/ CheckStatus("t1")
SpecReply == InitSession /\ [][NextReply]_vars

\* one thread sets default headers, resets the Session and sends Requests
\* with and without headers of their own; a Request header repeats a
\* default line and another has the name of a default with another value
NextDefaults ==
    \/ NextSends({"t1"},
                 {DefaultRequest,
                  [DefaultRequest EXCEPT !.headers_ = <<"X-Client: other", "Accept: */*">>]},
                 {1}, {"CURLE_OK", "CURLE_COULDNT_CONNECT"}, {BareReply})
    \/ \E headers \in {<<"X-Client: test">>, <<"Accept: */*", "X-Client: test">>} :
          SetDefaultHeaders("t1", headers)
    \/ Reset("t1")
SpecDefaults == InitSession /\ [][NextDefaults]_vars

\* one thread sends Requests whose body goes to memory or to a file, and the
\* engine replies with bodies of 2, 6400 or 6401 chunks of 16 KB (the
\* CURLOPT_BUFFERSIZE of apply_safety_settings): 6400 chunks are 100 MB to
\* the byte and 6401 are more; a body comes with or without its length
\* announced
NextBody ==
    NextSends({"t1"},
              {DefaultRequest, [DefaultRequest EXCEPT !.output_file_path_ = WritablePath]},
              {1}, {"CURLE_OK", "CURLE_FILESIZE_EXCEEDED"},
              {BareReply} \cup
              {[BareReply EXCEPT !.body = [chunk |-> 16384, chunks |-> n, length_known |-> k]] :
                  n \in {2, 6400, 6401}, k \in BOOLEAN})
SpecBody == InitSession /\ [][NextBody]_vars

\* two callers of a pool of one Session acquire and release it, and the
\* thread of a caller that has acquired it sets its default headers and
\* cookies, resets it and sends on it; one Request has a cookie of its own
NextPooled ==
    \/ \E c \in {"c1", "c2"} : AcquireEnter(c)
    \/ \E c \in {"c1", "c2"} : AcquireWake(c)
    \/ \E c \in {"c1", "c2"}, keep \in BOOLEAN : ReleaseSession(c, 1, keep)
    \/ \E headers \in {<<"X-Client: test">>} :
          (\E c \in Callers : 1 \in ptrs[c]) /\ SetDefaultHeaders("t1", headers)
    \/ \E cookies \in {[k \in {"sid"} |-> "1"]} :
          (\E c \in Callers : 1 \in ptrs[c]) /\ SetDefaultCookies("t1", cookies)
    \/ (\E c \in Callers : 1 \in ptrs[c]) /\ Reset("t1")
    \/ /\ \E c \in Callers : 1 \in ptrs[c]
       /\ NextSends({"t1"},
                    {DefaultRequest, [DefaultRequest EXCEPT !.cookies_ = [k \in {"r"} |-> "2"]]},
                    {1}, {"CURLE_OK", "CURLE_COULDNT_CONNECT"}, {BareReply})
SpecPooled == InitObjects /\ [][NextPooled]_vars

\* one caller works on a HEADERS object;
\* the collection is new, or add has filled it to one line below the
\* maximum count
InitHeaders ==
    /\ InitPoolWith(1) /\ InitSessionWith(TRUE) /\ InitMove
    /\ headers_ \in {<<>>, [i \in 1..(MAX_HEADERS_COUNT - 1) |->
                                 safe_concat(Sample.F, <<"0">>)]}
    /\ header_call = NoCall
    /\ cookies_ = NoCookies
    /\ cookie_call = NoCall

SpecHeaders == InitHeaders /\ [][NextHeaders]_vars

\* one caller works on a HEADERS object that starts empty and asks is_valid()
SpecValid == InitObjects /\ [][NextValid]_vars

\* one caller works on a COOKIES object
SpecCookies == InitObjects /\ [][NextCookies]_vars

\* two threads send on the Session, and the calls take different times
NextCalls ==
    NextSends(Threads, {DefaultRequest, [DefaultRequest EXCEPT !.url_ = ""], UploadRequest},
              {1, 2}, EngineCodes, {BareReply})
SpecCalls == InitSession /\ [][NextCalls]_vars

\* one thread sends on the Session, its calls take different times, and the
\* monitoring thread reads the average while it does
NextAverage ==
    \/ NextSends({"t1"}, {DefaultRequest}, {1, 2}, {"CURLE_OK", "CURLE_COULDNT_CONNECT"},
                 {BareReply})
    \/ AverageLoadCount
    \/ AverageReturn
SpecAverage == InitSession /\ [][NextAverage]_vars

\* a caller that keeps a Session of the pool gives it back (and drops it)
HolderReleases(c) == \E s \in ptrs[c] : ReleaseSession(c, s, FALSE)

\* Fair scheduling of the pool's callers: every thread that can run does run,
\* and holders release. A waiter's wake-up has no fairness: pool_cv_ is never
\* notified, and a spurious wake-up is permitted, never promised.
FairSpecPool ==
    /\ InitPool
    /\ [][NextPool]_vars
    /\ \A c \in Callers : WF_vars(HolderReleases(c))

----------------------------------------------------------------------------
(* Claims about the SessionPool                                            *)

\* C1: when a caller is blocked in acquire_session and a release_session
\* has put a Session on the idle list, the blocked acquire_session
\* eventually returns with a Session: a caller never stays blocked for ever
\* while a released Session stays idle (the one way it may still be blocked
\* later is that another caller took the idle Session first).
C1_BlockedAcquireReturns ==
    \A c \in Callers :
        (caller_pc[c] = "waiting" /\ available_sessions_ # <<>>)
            ~> (caller_pc[c] = "idle" \/ available_sessions_ = <<>>)

\* C2: the idle and the in-use Sessions together never exceed max_size
\* (0 counts as 1), and a Session is created only when none is idle and the
\* in-use count is below max_size.
C2_PoolBounded ==
    /\ [](PoolSize <= (IF pool_arg = 0 THEN 1 ELSE pool_arg))
    /\ [][created' # created =>
            /\ available_sessions_ = <<>>
            /\ Len(in_use_sessions_) < (IF pool_arg = 0 THEN 1 ELSE pool_arg)]_vars

\* the pool is full, with one Session idle after a release and one in use
C2_Witness ==
    /\ PoolSize = max_size_
    /\ created = max_size_
    /\ available_sessions_ # <<>>
    /\ in_use_sessions_ # <<>>

----------------------------------------------------------------------------
(* Claims about Session::send                                              *)

\* thread t is between the reset of the handle and the end of its send
InHandle(t) == pc[t] \in {"reset", "configure", "perform", "complete"}

\* C3: at most one send at a time is between resetting the handle and
\* finishing the read-back, and the thread that is there holds the Session's
\* mutex (concurrent send / send_async callers serialize).
C3_SendsSerialize ==
    /\ \A t \in Threads : InHandle(t) => session_mutex_ = t
    /\ \A t, u \in Threads : InHandle(t) /\ InHandle(u) => t = u

\* one thread is performing its transfer while the other waits for the mutex
C3_Witness ==
    \E t, u \in Threads : t # u /\ pc[t] = "perform" /\ pc[u] = "lock"

\* C4: every write of a handle option is made by a thread that holds the
\* Session's mutex, so while a send has configured the handle and not yet
\* ended, the last option write is its own and was made under the mutex.
C4_OptionWritesUnderLock ==
    \A t \in Threads :
        pc[t] \in {"configure", "perform", "complete"} =>
            last_write.by = t /\ last_write.locked

\* C5: when a send has ended, by a return or by an exception, its multipart
\* structure, its header list and its output file have been released.
C5_ResourcesReleased ==
    \A t \in Threads : pc[t] = "idle" => locals[t] = NoLocals

\* the number of send calls that have ended
SendsEnded == sends_started - Cardinality({t \in Threads : pc[t] # "idle"})

\* C6: every send that has ended (Response, failed validation or failed
\* transfer) added one to the request count and its elapsed time, once, to
\* the cumulative time; a fresh Session has count 0 and average 0.
C6_StatisticsCountEveryCall ==
    /\ request_count_ = SendsEnded + Cardinality({t \in Threads : pc[t] = "statistics"})
    /\ total_response_time_ = elapsed_sum
    /\ sends_started = 0 =>
          /\ request_count_ = 0
          /\ get_average_response_time(request_count_, total_response_time_) =
                [num |-> 0, den |-> 1]

\* two calls have ended, one failed in validation and one in the engine, and
\* they took different times
C6_Witness ==
    /\ request_count_ = 2
    /\ total_response_time_ = 3
    /\ \E t, u \in Threads :
          /\ result[t].kind = "RequestException" /\ ~result[t].reset
          /\ result[u].kind = "Timeout" /\ result[u].performed

\* C7: a send whose transfer failed ended with no Response and with the one
\* error kind its engine code stands for: could-not-connect and
\* could-not-resolve-host give ConnectionError, operation-timed-out gives
\* Timeout, too-many-redirects gives TooManyRedirects, any other code the
\* base RequestException.
C7_EngineErrorKinds ==
    \A t \in Threads :
        (pc[t] = "idle" /\ result[t].performed /\ result[t].res # "CURLE_OK") =>
            /\ result[t].res \in {"CURLE_COULDNT_CONNECT", "CURLE_COULDNT_RESOLVE_HOST"}
                  => result[t].kind = "ConnectionError"
            /\ result[t].res = "CURLE_OPERATION_TIMEDOUT" => result[t].kind = "Timeout"
            /\ result[t].res = "CURLE_TOO_MANY_REDIRECTS"
                  => result[t].kind = "TooManyRedirects"
            /\ result[t].res \notin {"CURLE_COULDNT_CONNECT", "CURLE_COULDNT_RESOLVE_HOST",
                                      "CURLE_OPERATION_TIMEDOUT", "CURLE_TOO_MANY_REDIRECTS"}
                  => result[t].kind = "RequestException"

\* sends have ended with a time-out and with too many redirects
C7_Witness ==
    \E t \in Threads :
        /\ pc[t] = "idle"
        /\ result[t].performed
        /\ result[t].res = "CURLE_TOO_MANY_REDIRECTS"
        /\ result[t].kind = "TooManyRedirects"

\* C8: a send of a Request with an empty URL ends with RequestException and
\* never gets to the handle: it does not reset it, configure it or run a
\* transfer, and returns no Response.
C8_EmptyUrlRejected ==
    \A t \in Threads :
        req[t].url_ = "" =>
            /\ pc[t] \in {"idle", "statistics"}
            /\ result[t].kind = "RequestException"
            /\ ~result[t].reset
            /\ ~result[t].performed

\* a send with an empty URL has ended, on a valid Session whose handle an
\* earlier send had configured
C8_Witness ==
    \E t \in Threads :
        /\ req[t].url_ = ""
        /\ is_valid_
        /\ result[t].kind = "RequestException"
        /\ opts.URL # <<>>
        /\ request_count_ = 2

\* C9: when a transfer is about to run, every option of the handle is what
\* the Session's standing settings and the current Request give; an option
\* that an earlier send applied (credentials, raw body or multipart, body
\* suppression, output sink, request headers, redirect policy) is not in
\* effect unless the current Request sets it.
C9_NoOptionLeak ==
    \A t \in Threads :
        pc[t] = "perform" =>
            LET r == req[t] IN
            /\ opts.URL = FullUrl(r)
            /\ opts.CUSTOMREQUEST = r.method_
            /\ (r.auth_.type = "None" => opts.USERPWD = <<>> /\ opts.HTTPAUTH = "unset")
            /\ (r.auth_.type # "None" =>
                   /\ opts.USERPWD = <<r.auth_.username, ":", r.auth_.password>>
                   /\ opts.HTTPAUTH = r.auth_.type)
            /\ (r.files_ = <<>> => opts.MIMEPOST = <<>>)
            /\ (r.files_ # <<>> => opts.MIMEPOST # <<>> /\ opts.POSTFIELDS = "unset")
            /\ (r.files_ = <<>> /\ r.body_ # "" => opts.POSTFIELDS = r.body_)
            /\ (r.body_ = "" => opts.POSTFIELDS = "unset")
            /\ opts.NOBODY = (IF r.method_ = "HEAD" /\ r.output_file_path_ = "" THEN 1 ELSE 0)
            /\ opts.WRITEDATA = (IF r.output_file_path_ # "" THEN "file"
                                 ELSE IF r.method_ = "HEAD" THEN "null" ELSE "memory")
            /\ opts.HTTPHEADER = default_headers_ \o r.headers_
            /\ opts.FOLLOWLOCATION = (IF r.allow_redirects_.value THEN 1 ELSE 0)
            /\ opts.MAXREDIRS = (IF r.allow_redirects_.value
                                 THEN r.allow_redirects_.max_redirects ELSE 10)
            /\ opts.CONNECTTIMEOUT = settings.connection_timeout_
            /\ opts.TIMEOUT = settings.transfer_timeout_
            /\ opts.TCP_KEEPALIVE = (IF settings.keep_alive_enabled_ THEN 1 ELSE 0)
            /\ opts.MAXCONNECTS = settings.max_connections_per_host_
            /\ opts.ACCEPT_ENCODING =
                  (IF settings.compression_enabled_ THEN "gzip,deflate" ELSE "unset")
            /\ opts.COOKIEFILE = "unset" /\ opts.COOKIEJAR = "unset"
            /\ opts.SSL_VERIFYPEER = 1 /\ opts.SSL_VERIFYHOST = 2
            /\ opts.PROTOCOLS = "http,https"

\* a transfer is about to run for the default Request on a handle that, when
\* this send reset it, still carried options of an earlier send
C9_Witness ==
    \E t \in Threads :
        pc[t] = "perform" /\ req[t] = DefaultRequest /\ result[t].stale

----------------------------------------------------------------------------
(* Claims about Session objects and their handles                          *)

\* the last operation was a move constructor or a move assignment
LastWasMove == last_op.op \in {"move_construct", "move_assign"}

\* each handle made is owned by at most one Session, is not released while a
\* Session owns it, and has been released once, not more, when none owns it
ReleasedOnce ==
    \A h \in Handles :
        /\ Cardinality(Owners(h)) <= 1
        /\ released[h] <= 1
        /\ h <= handles_made => (Owners(h) = {} <=> released[h] = 1)
        /\ h > handles_made => released[h] = 0 /\ Owners(h) = {}

\* a Session that owned no handle released nothing when it was destroyed
DestroyOfEmptyReleasesNothing ==
    (last_op.op = "destroy" /\ last_op.held = NullHandle) => last_op.freed = NullHandle

\* C10 as stated: each handle is released once and has one owner at most,
\* and after every move the target is valid and owns the handle while the
\* moved-from Session is invalid.
C10_EveryMoveGivesValidTarget ==
    /\ ReleasedOnce
    /\ DestroyOfEmptyReleasesNothing
    /\ LastWasMove =>
          /\ IsValid(objects[last_op.dst])
          /\ objects[last_op.dst].curl_handle_ # NullHandle
          /\ ~IsValid(objects[last_op.src])

\* C10: across construction, move construction, move assignment and
\* destruction each handle is released exactly once and owned by at most one
\* Session; after a move between two distinct Sessions whose source owned a
\* handle the target is valid and owns that handle, and the source is invalid,
\* owns nothing and releases nothing when destroyed; after a move from a
\* Session that owned no handle the target is invalid as well, and a
\* self-move-assignment leaves the Session as it was.
C10_HandleOwnership ==
    /\ ReleasedOnce
    /\ DestroyOfEmptyReleasesNothing
    /\ (LastWasMove /\ last_op.dst # last_op.src /\ last_op.held # NullHandle) =>
          /\ IsValid(objects[last_op.dst])
          /\ objects[last_op.dst].curl_handle_ = last_op.held
          /\ ~IsValid(objects[last_op.src])
          /\ objects[last_op.src].curl_handle_ = NullHandle
    /\ (LastWasMove /\ last_op.dst # last_op.src /\ last_op.held = NullHandle) =>
          /\ ~IsValid(objects[last_op.dst])
          /\ ~IsValid(objects[last_op.src])
    /\ (LastWasMove /\ last_op.dst = last_op.src) =>
          /\ objects[last_op.dst].curl_handle_ = last_op.held
          /\ IsValid(objects[last_op.dst]) = (last_op.held # NullHandle)
          /\ last_op.freed = NullHandle

\* a move assignment has just released the target's own handle and given it
\* the source's, while the first handle made was released by an earlier step
C10_Witness ==
    /\ last_op.op = "move_assign"
    /\ last_op.dst # last_op.src
    /\ last_op.held # NullHandle
    /\ last_op.freed # NullHandle
    /\ IsValid(objects[last_op.dst])
    /\ \E s \in Slots : objects[s].alive /\ objects[s].curl_handle_ = NullHandle

----------------------------------------------------------------------------
(* Claims about RESPONSE and what send reads back                          *)

\* C11: ok() is true iff the status code is in [200,400) (so true for 200
\* and 399, false for 100 and 400), and is_success() is true iff it is in
\* [200,300).
C11_OkRange ==
    \A t \in Threads :
        status_check[t].called =>
            /\ status_check[t].ok =
                  (response[t].statusCode >= 200 /\ response[t].statusCode < 400)
            /\ status_check[t].is_success =
                  (response[t].statusCode >= 200 /\ response[t].statusCode < 300)

----------------------------------------------------------------------------
(* Claims about HEADERS and COOKIES                                        *)

\* C13: for every valid name and value, add(name, value) on a collection
\* that holds no other entry, followed by get(name), returns exactly value,
\* and get with the name in any other letter case returns the same.
C13_AddThenGet ==
    \A input \in AddInputs :
        LET added == HEADERS_add(<<>>, input[1], input[2]) IN
        ( /\ is_valid_header_name(input[1])
          /\ is_valid_header_value(input[2])
          /\ added.thrown = "none"
          /\ header_call.op = "get"
          /\ header_call.before = added.headers_
          /\ LowerCase(header_call.key) = LowerCase(input[1]) )
        => header_call.returned = Some(input[2])

\* C14: remove(name) removes exactly the entries whose full name (the text
\* before the first colon) equals name ignoring case and keeps the others
\* in their order; it is a no-op when nothing matches or the name is
\* invalid; get(name) and has(name) match only entries whose full name
\* equals name ignoring case.
C14_FullNameMatch ==
    LET HeaderName(header) ==
            LET colon_pos == FindChar(header, ":", 1) IN
            IF colon_pos = 0 THEN header ELSE SubSeq(header, 1, colon_pos - 1)
        SameName(header, header_name) ==
            LowerCase(HeaderName(header)) = LowerCase(header_name)
    IN
    /\ header_call.op = "remove" =>
          headers_ = IF is_valid_header_name(header_call.key)
                     THEN SelectSeq(header_call.before,
                                    LAMBDA header : ~SameName(header, header_call.key))
                     ELSE header_call.before
    /\ header_call.op = "has" =>
          (header_call.returned.has_value <=>
              \E i \in 1..Len(header_call.before) :
                  SameName(header_call.before[i], header_call.key))
    /\ (header_call.op = "get" /\ header_call.returned.has_value) =>
          \E i \in 1..Len(header_call.before) :
              SameName(header_call.before[i], header_call.key)

C16_CookieMap ==
    LET before == cookie_call.before
        key == cookie_call.key
    IN
    /\ cookie_call.op = "add" =>
          /\ DOMAIN cookies_ = (DOMAIN before) \cup {key}
          /\ cookies_[key] = cookie_call.value
          /\ COOKIES_get(cookies_, key) = Some(cookie_call.value)
          /\ \A k \in (DOMAIN before) \ {key} : cookies_[k] = before[k]
    /\ cookie_call.op = "remove" =>
          /\ DOMAIN cookies_ = (DOMAIN before) \ {key}
          /\ \A k \in DOMAIN cookies_ : cookies_[k] = before[k]
          /\ key \notin DOMAIN before => cookies_ = before
    /\ cookie_call.op = "get" =>
          /\ cookies_ = before
          /\ cookie_call.returned =
                IF key \in DOMAIN before THEN Some(before[key]) ELSE Nullopt

\* add replaced the value of a name the map already held, next to another
\* key
C16_Witness ==
    /\ cookie_call.op = "add"
    /\ cookie_call.key \in DOMAIN cookie_call.before
    /\ cookie_call.before[cookie_call.key] # cookie_call.value
    /\ cookies_[cookie_call.key] = cookie_call.value
    /\ Cardinality(DOMAIN cookies_) >= 2

----------------------------------------------------------------------------
(* Claims about what send takes from the Request and gives in the RESPONSE *)

\* C17: when the Request carries a Timeout of t > 0 seconds, the transfer
\* send executes for it is bounded by t: a transfer that took longer ends
\* the call with the Timeout error kind.
C17_RequestTimeoutBounds ==
    \A t \in Threads :
        (pc[t] = "idle" /\ result[t].performed /\ req[t].timeout_ > 0
            /\ delivered[t].took > req[t].timeout_) =>
        result[t].kind = "Timeout"

\* C18: the TLS verification in effect for a transfer follows the Verify
\* flag of the Request: peer and host verification are on with the default
\* (true) and off with VERIFY(false).
C18_VerifyFollowsRequest ==
    \A t \in Threads :
        pc[t] = "perform" =>
            /\ opts.SSL_VERIFYPEER = (IF req[t].verify_ THEN 1 ELSE 0)
            /\ opts.SSL_VERIFYHOST = (IF req[t].verify_ THEN 2 ELSE 0)

\* the RESPONSE thread t holds is the one its last send returned
HoldsSentResponse(t) ==
    /\ pc[t] = "idle"
    /\ result[t].kind = "Response"
    /\ response[t] = BuildResponse(req[t], delivered[t])

\* C19: after a successful send of a Request with non-empty Params, the
\* request_url of the Response is the effective URL handed to the engine:
\* the URL followed by the query string of the percent-encoded Params.
C19_RequestUrlIsEffectiveUrl ==
    \A t \in Threads :
        (HoldsSentResponse(t) /\ req[t].params_ # <<>>) =>
            /\ response[t].request_url = FullUrl(req[t])
            /\ response[t].request_url = opts.URL

\* C20: for a successful transfer every captured line "Set-Cookie: n=v",
\* with or without ";" and attributes after it, adds n -> v to the received
\* cookies of the Response, n being the text between "Set-Cookie: " and the
\* first '=' and v the text after that '=' up to the first ';' or the end
\* of the line (the last line for a name decides its value); a Set-Cookie
\* line without '=' adds no cookie and does not fail the call.
C20_ReceivedCookies ==
    LET SetCookieStart == SetCookiePrefix \o <<" ">>
        first == Len(SetCookieStart) + 1
        IsCookieLine(header_line) ==
            /\ StartsWith(header_line, SetCookieStart)
            /\ \E e \in first..Len(header_line) : header_line[e] = "="
        CookieOfLine(header_line) ==
            LET e == CHOOSE e \in first..Len(header_line) :
                         header_line[e] = "=" /\ \A k \in first..(e - 1) : header_line[k] # "="
                ends == {k \in (e + 1)..Len(header_line) : header_line[k] = ";"}
                last == IF ends = {} THEN Len(header_line)
                        ELSE (CHOOSE k \in ends : \A j \in ends : k <= j) - 1
            IN [name |-> SubSeq(header_line, first, e - 1),
                value |-> SubSeq(header_line, e + 1, last)]
    IN
    \A t \in Threads :
        HoldsSentResponse(t) =>
            LET lines == response[t].headers
                cookie_lines == {i \in 1..Len(lines) : IsCookieLine(lines[i])}
                cookies == response[t].received_cookies
            IN
            /\ \A i \in cookie_lines :
                  /\ CookieOfLine(lines[i]).name \in DOMAIN cookies
                  /\ (\A j \in cookie_lines :
                         j > i => CookieOfLine(lines[j]).name # CookieOfLine(lines[i]).name)
                     => cookies[CookieOfLine(lines[i]).name] = CookieOfLine(lines[i]).value
            /\ DOMAIN cookies = {CookieOfLine(lines[i]).name : i \in cookie_lines}

\* a transfer delivered "Set-Cookie: session=abc123; Path=/" and a
\* Set-Cookie line without '=': send returned a Response whose received
\* cookies map session to abc123
C20_Witness ==
    \E t \in Threads :
        /\ HoldsSentResponse(t)
        /\ delivered[t].header_lines = Reply.cookie.header_lines
        /\ Len(response[t].headers) = 4
        /\ <<"s", "e", "s", "s", "i", "o", "n">> \in DOMAIN response[t].received_cookies
        /\ response[t].received_cookies[<<"s", "e", "s", "s", "i", "o", "n">>]
              = <<"a", "b", "c", "1", "2", "3">>

----------------------------------------------------------------------------
(* Claims about redirects, headers, the URL and the body of a send         *)

\* C21: when the Request allows redirects the transfer follows them up to
\* the Request's maximum hop count; otherwise following is off, and a 3xx
\* reply the engine has transferred successfully is what send returns: a
\* Response with that status and its Location header, not an error.
C21_RedirectsFollowRequest ==
    \A t \in Threads :
        /\ pc[t] = "perform" =>
              IF req[t].allow_redirects_.value
              THEN /\ opts.FOLLOWLOCATION = 1
                   /\ opts.MAXREDIRS = req[t].allow_redirects_.max_redirects
              ELSE opts.FOLLOWLOCATION = 0
        /\ (/\ pc[t] = "idle"
            /\ ~req[t].allow_redirects_.value
            /\ delivered[t].engine_res = "CURLE_OK"
            /\ delivered[t].response_code >= 300
            /\ delivered[t].response_code < 400) =>
              /\ result[t].kind = "Response"
              /\ response[t].statusCode = delivered[t].response_code
              /\ HEADERS_has(response[t].headers,
                             <<"L", "o", "c", "a", "t", "i", "o", "n">>)

\* C22: the header lines handed to the engine for a transfer are the
\* Session's default headers in their order followed by the Request's in
\* theirs, a line or name present in both kept twice, and the Response
\* reports that same sequence as request_headers. A send changes neither
\* the default headers nor the Request; only set_default_headers changes
\* the defaults, which therefore apply to every later send.
C22_HeadersMerge ==
    /\ [](\A t \in Threads :
            pc[t] = "perform" =>
                opts.HTTPHEADER =
                    [i \in 1..(Len(default_headers_) + Len(req[t].headers_)) |->
                        IF i <= Len(default_headers_) THEN default_headers_[i]
                        ELSE req[t].headers_[i - Len(default_headers_)]])
    /\ [][/\ default_headers_' # default_headers_ =>
                (config_calls' = config_calls + 1 /\ pc' = pc)
          /\ \A t \in Threads :
                pc[t] # "idle" =>
                    /\ req'[t] = req[t]
                    /\ response'[t] # response[t] =>
                          response'[t].request_headers =
                              [i \in 1..(Len(default_headers_) + Len(req[t].headers_)) |->
                                  IF i <= Len(default_headers_) THEN default_headers_[i]
                                  ELSE req[t].headers_[i - Len(default_headers_)]]]_vars

\* a second send has returned with the two default lines followed by the
\* two Request lines, one of which repeats a default line
C22_Witness ==
    /\ sends_started = 2
    /\ pc["t1"] = "idle"
    /\ result["t1"].kind = "Response"
    /\ default_headers_ = <<"Accept: */*", "X-Client: test">>
    /\ response["t1"].request_headers =
          <<"Accept: */*", "X-Client: test", "X-Client: other", "Accept: */*">>

\* C23: the URL handed to the engine is the Request's URL unchanged when the
\* Params are empty; otherwise it is the URL, a '?', and the pairs
\* name=value joined by '&', where the letters, the digits and - _ . ~
\* stand for themselves and every other byte is written as '%' followed by
\* exactly two uppercase hexadecimal digits.
C23_QueryEncoding ==
    LET Upper == <<"0", "1", "2", "3", "4", "5", "6", "7", "8", "9",
                   "A", "B", "C", "D", "E", "F">>
        Literal(c) ==
            \/ CharCode(c) \in (48..57) \cup (65..90) \cup (97..122)
            \/ c \in {"-", "_", ".", "~"}
        RECURSIVE Encoded(_)
        Encoded(str) ==
            IF str = <<>> THEN <<>>
            ELSE (IF Literal(str[1]) THEN <<str[1]>>
                  ELSE <<"%", Upper[(CharCode(str[1]) \div 16) + 1],
                         Upper[(CharCode(str[1]) % 16) + 1]>>)
                 \o Encoded(Tail(str))
        RECURSIVE Joined(_)
        Joined(params) ==
            IF params = <<>> THEN <<>>
            ELSE (IF Len(params) > 1 THEN <<"&">> ELSE <<>>)
                 \o Encoded(params[Len(params)].name) \o <<"=">>
                 \o Encoded(params[Len(params)].value)
        RECURSIVE Query(_)
        Query(params) ==
            IF params = <<>> THEN <<>>
            ELSE Query(SubSeq(params, 1, Len(params) - 1)) \o Joined(params)
    IN
    \A t \in Threads :
        pc[t] = "perform" =>
            opts.URL = IF req[t].params_ = <<>> THEN <<req[t].url_>>
                       ELSE <<req[t].url_, "?">> \o Query(req[t].params_)

\* C24: the body send accumulates in memory never exceeds the maximum body
\* size of 100 MB: a transfer whose body goes past the cap fails with an
\* error, and a Response send returns carries the whole body of the reply,
\* never more than the cap and never a truncated part.
C24_BodyCap ==
    \A t \in Threads :
        (pc[t] = "idle" /\ result[t].performed /\ opts.WRITEDATA = "memory") =>
            /\ delivered[t].response_body <= 100 * 1024 * 1024
            /\ delivered[t].body_length > 100 * 1024 * 1024 => result[t].kind # "Response"
            /\ result[t].kind = "Response" =>
                  /\ response[t].body <= 100 * 1024 * 1024
                  /\ response[t].body = delivered[t].body_length

\* C25: SessionPool::release_session and Session::reset leave the default
\* headers, the default cookies, the cookie-jar path and the request
\* statistics of the Session as they were, so a Session that is acquired
\* again sends its default headers and default cookies as before: every
\* transfer carries the default headers first and every default cookie that
\* the Request does not replace.
C25_ResetKeepsDefaults ==
    /\ [][((\E c \in Callers, keep \in BOOLEAN : ReleaseSession(c, 1, keep))
           \/ (\E t \in Threads : Reset(t))) =>
              /\ default_headers_' = default_headers_
              /\ default_cookies_' = default_cookies_
              /\ cookie_jar_path_' = cookie_jar_path_
              /\ request_count_' = request_count_
              /\ total_response_time_' = total_response_time_]_vars
    /\ [](\A t \in Threads :
            pc[t] = "perform" =>
                /\ Len(opts.HTTPHEADER) >= Len(default_headers_)
                /\ SubSeq(opts.HTTPHEADER, 1, Len(default_headers_)) = default_headers_
                /\ \A k \in (DOMAIN default_cookies_) \ (DOMAIN req[t].cookies_) :
                      /\ k \in DOMAIN opts.COOKIELIST
                      /\ opts.COOKIELIST[k] = default_cookies_[k])

\* the Session has been released by one caller and acquired by the other
\* (both have a pointer to it), a send counted before is still counted, and
\* a transfer is about to run with the default header and the default cookie
C25_Witness ==
    /\ 1 \in ptrs["c1"] /\ 1 \in ptrs["c2"]
    /\ in_use_sessions_ = <<1>>
    /\ pc["t1"] = "perform"
    /\ request_count_ = 1
    /\ default_headers_ = <<"X-Client: test">>
    /\ default_cookies_ = [k \in {"sid"} |-> "1"]
    /\ opts.HTTPHEADER = <<"X-Client: test">>
    /\ opts.COOKIELIST = [k \in {"sid", "r"} |-> IF k = "sid" THEN "1" ELSE "2"]

----------------------------------------------------------------------------
(* Claims about the validity of a HEADERS collection                       *)

\* C26: after any sequence of add(name, value), add(line), add_bulk, remove
\* and clear calls, successful or not, on a collection that starts empty,
\* is_valid() returns true; and an add that is rejected leaves the
\* collection as it was.
C26_AlwaysValid ==
    /\ header_call.op = "is_valid" => header_call.returned = Some(<<"true">>)
    /\ (header_call.op \in {"add", "add_line"} /\ header_call.thrown # "none") =>
          headers_ = header_call.before

----------------------------------------------------------------------------
(* Claims about the capture of the reply's header lines                    *)

\* C27: capturing the header lines of the reply never makes a transfer fail
\* that the engine would have completed: for every line (a status line, a
\* line that fails the validation of HEADERS, a line that arrives when the
\* collection is full) the callback reports the whole line as consumed, so
\* send returns a Response whenever the engine's transfer succeeds.
C27_CaptureNeverFails ==
    \A t \in Threads :
        /\ (pc[t] = "complete" /\ delivered[t].engine_res = "CURLE_OK") =>
              result[t].res = "CURLE_OK"
        /\ (pc[t] = "idle" /\ result[t].performed /\ delivered[t].engine_res = "CURLE_OK") =>
              result[t].kind = "Response"

----------------------------------------------------------------------------
(* Claims about the lists of the pool                                      *)

\* C28: in every state of the pool a Session is in at most one of the idle
\* and in-use lists, and at most once. From a state in which every pointer
\* a caller keeps is of a Session it has acquired and not released (the
\* callers have released only Sessions they held), acquire_session gives a
\* Session that no other caller holds. A release_session of a Session that
\* is not in the in-use list changes nothing: a release (the step that
\* leaves every caller where it is, gives no caller a pointer and adds
\* nothing to the in-use list) that changes anything takes the released
\* Session out of the in-use list.
C28_PoolListsDisjoint ==
    /\ [](LET all == available_sessions_ \o in_use_sessions_ IN
          \A i, j \in 1..Len(all) : all[i] = all[j] => i = j)
    /\ [][/\ \A c \in Callers :
                (/\ ptrs'[c] # ptrs[c]
                 /\ ptrs[c] \subseteq ptrs'[c]
                 /\ \A d \in Callers :
                       /\ ptrs[d] \subseteq {in_use_sessions_[i] : i \in 1..Len(in_use_sessions_)}
                       /\ \A e \in Callers \ {d} : ptrs[d] \cap ptrs[e] = {}) =>
                    \A d \in Callers \ {c} : (ptrs'[c] \ ptrs[c]) \cap ptrs'[d] = {}
          /\ (/\ caller_pc' = caller_pc
              /\ Len(in_use_sessions_') <= Len(in_use_sessions_)
              /\ \A c \in Callers : ptrs'[c] \subseteq ptrs[c]) =>
                \/ /\ available_sessions_' = available_sessions_
                   /\ in_use_sessions_' = in_use_sessions_
                   /\ created' = created /\ max_size_' = max_size_
                   /\ sessionVars' = sessionVars
                \/ \E i \in 1..Len(in_use_sessions_) :
                      /\ in_use_sessions_' = EraseAt(in_use_sessions_, i)
                      /\ available_sessions_' \in
                            {available_sessions_,
                             Append(available_sessions_, in_use_sessions_[i])}
                      /\ \A c \in Callers :
                            ptrs'[c] # ptrs[c] => ptrs[c] \ ptrs'[c] = {in_use_sessions_[i]}]_vars

\* both Sessions of a pool of two have been made; one is idle again after
\* its release, the other is in use by the only caller that holds a pointer
C28_Witness ==
    /\ created = 2
    /\ Len(available_sessions_) = 1 /\ Len(in_use_sessions_) = 1
    /\ available_sessions_[1] # in_use_sessions_[1]
    /\ \E c \in Callers :
          /\ ptrs[c] = {in_use_sessions_[1]}
          /\ \A d \in Callers \ {c} : ptrs[d] = {}

\* C29: get_average_response_time returns 0 when no request was made and
\* otherwise the cumulative time divided by the request count of one single
\* state between completed statistics updates: the count a concurrent reader
\* loaded never includes a call whose elapsed time is not in the cumulative
\* time it divides.
C29_AverageOfOneState ==
    average_call.returned =>
        average_call.value =
            IF average_call.count = 0 THEN [num |-> 0, den |-> 1]
            ELSE [num |-> average_call.counted_time, den |-> average_call.count]

\* C30: add_bulk is all-or-nothing: after a call that failed (the pairs
\* would take the count past the maximum, or a pair has an invalid name or
\* value) the collection is exactly as it was before the call, and after a
\* call that succeeded it is the collection of before followed by one line
\* for each pair, in the given order.
C30_AddBulkAllOrNothing ==
    header_call.op = "add_bulk" =>
        /\ header_call.thrown # "none" => headers_ = header_call.before
        /\ header_call.thrown = "none" =>
              headers_ = header_call.before \o
                  [i \in 1..Len(header_call.key) |->
                      safe_concat(header_call.key[i].key, header_call.key[i].value)]

====
